---- MODULE Spec2Model ----
(***************************************************************************)
(* Model of the runtime control subsystem of the 3D portfolio application: *)
(* the PerformanceService frame loop ("Performance Governor").             *)
(*                                                                         *)
(* Time is in integer milliseconds.  Frame rates, positions and angles are *)
(* IEEE-754 doubles, every operation rounded as the processor rounds it    *)
(* (section "JavaScript numbers").  requestAnimationFrame is modelled      *)
(* as a queue of callback handles: Refresh is one display refresh, Monitor *)
(* is one execution of the `monitor` closure.  Application calls happen    *)
(* between frames.  Spec explores every operation and subscriber behaviour *)
(* across the first sampling window; SpecAuto explores tier selection over *)
(* several windows; SpecSubs follows subscriptions by their handles and    *)
(* SpecCapability the capability query.  SpecTracker and SpecIssues are    *)
(* the ErrorTrackingService across the caps of its two lists, SpecStore is *)
(* the scene store under its named operations.                             *)
(***************************************************************************)
EXTENDS Integers, Sequences, FiniteSets, TLC

\* ------------------------------------------------------------------ bounds
MaxFrames == 61         \* frame-callback executions explored by Spec
MaxAutoFrames == 180    \* frame-callback executions explored by SpecAuto
MaxLoops == 2           \* frame loops that may be pending at once
MaxListeners == 2       \* length of the listener list explored
MaxHandles == 3         \* subscribe() calls explored by SpecSubs
MaxErrorCalls == 52     \* trackError calls since a clear explored by SpecTracker
MaxIssueCalls == 102    \* trackPerformanceIssue calls since a clear explored by SpecIssues
VarietyLen == 2         \* calls since a clear whose kind is chosen freely
FewCalls == 1           \* calls since a clear explored for the list a specification does not fill
MaxHistoryFrames == 1860 \* frame-callback executions explored by SpecHistory (31 windows)
MaxFaults == 3          \* tracked faults explored by SpecFaults
MaxCameraFrames == 3    \* camera frame updates explored by SpecCamera and SpecFrame
MaxLook == 2            \* largest accumulated look offset explored, in radians
MaxLockRequests == 1    \* pointer-lock calls waiting for the browser's answer
MaxLookFrames == 2      \* camera frame updates explored by SpecLook
MaxAppFrames == 120     \* frame-callback executions explored by SpecApp (two windows)
MaxTime == 1            \* latest Date.now() reading explored for the store

\* ------------------------------------------------------- program constants
WindowFrames == 60      \* frames per sampling window
HistoryCap == 30        \* length of the FPS history
LowThreshold == 25
MediumThreshold == 40
UpgradeThreshold == 55
Null == 0               \* animationFrameId = null (handles start at 1)
maxStoredErrors == 50
maxStoredIssues == 100
RecentCount == 5        \* entries of a summary's recent list
movementSpeed == 10     \* CameraController props, as PortfolioScene passes them
lookSpeed == 2

\* ------------------------------------------------------------ input sets
FrameMsSet == {10, 50}         \* display refresh intervals (100 fps, 20 fps)
AutoFrameMsSet == {10, 30, 50} \* refresh intervals explored by SpecAuto (adds 33.3 fps)
RatePoints == {60, 1800}       \* frame counts at which SpecHistory changes the refresh interval
CallPoints == {0, 30}          \* frames of a window at which start/stop calls are explored
Modes == {"auto", "high", "medium", "low"}
Listeners == {"f", "thrower", "stopper", "leaver"}
PlainListeners == {"f", "g"}   \* callbacks that only read the metrics
HookListener == "setNavigationState"  \* the callback use3DNavigation subscribes
SceneModes == {"auto", "high"} \* values of PortfolioScene's performanceMode prop
ErrorTypes == {"webgl_context_lost", "webgl_not_supported",
               "shader_compilation_error", "texture_load_error",
               "model_load_error"}
IssueTypes == {"low_fps", "high_memory", "slow_load_time", "render_timeout"}
\* Kinds passed by the callers explored: any of these for the first
\* VarietyLen calls since a clear, the first one afterwards (a burst of one
\* kind, as in the cap test).
TrackedErrorTypes == <<"shader_compilation_error", "webgl_context_lost">>
TrackedIssueTypes == <<"low_fps", "high_memory">>
ErrorChoices(n) ==
  IF n < VarietyLen THEN {TrackedErrorTypes[i] : i \in 1..Len(TrackedErrorTypes)}
  ELSE {TrackedErrorTypes[1]}
IssueChoices(n) ==
  IF n < VarietyLen THEN {TrackedIssueTypes[i] : i \in 1..Len(TrackedIssueTypes)}
  ELSE {TrackedIssueTypes[1]}
\* The analytics sink seen by reportToAnalytics: no window object, window
\* without gtag, a gtag that returns, a gtag that throws.
Sinks == {"no_window", "absent", "ok", "throws"}
\* What the platform can create: a WebGL 1 context, a WebGL 2 context.
Platforms == [webgl1 : BOOLEAN, webgl2 : BOOLEAN]
\* The device as initializeDefaults sees it: a desktop, a phone, and a
\* desktop whose user prefers reduced motion.
Devices ==
  {[isMobile |-> FALSE, isLowEndDevice |-> FALSE, prefersReducedMotion |-> FALSE],
   [isMobile |-> TRUE, isLowEndDevice |-> TRUE, prefersReducedMotion |-> FALSE],
   [isMobile |-> FALSE, isLowEndDevice |-> FALSE, prefersReducedMotion |-> TRUE]}
\* A browser canvas is bound to the first context type it creates; the
\* canvas stub of the unit test answers every getContext call alike.
Canvases == {"browser", "stub"}
\* A JavaScript number: a value, or NaN.
Number(v) == [nan |-> FALSE, value |-> v]
NaN == [nan |-> TRUE, value |-> 0]
\* Arguments of the store operations explored.
ProgressInputs == {Number(-10), Number(50), Number(150), NaN}
Zones == {"main", "gallery"}
FpsInputs == {30, 60}
ErrorInputs == {"null", "WebGL is not supported on this device/browser"}
\* Partial<UserPreferences> arguments of updateUserPreferences; an optional
\* property may be present with the value undefined.
Undefined == "undefined"
PreferenceInputs ==
  {[reducedMotion |-> TRUE], [audioEnabled |-> FALSE],
   [skipIntroduction |-> TRUE]}
    \cup {[performanceMode |-> m] : m \in Modes \cup {Undefined}}
\* Arguments of the camera operations of the store.
PositionInputs == {<<10, 5, -3>>}
TargetInputs == {<<5, 2, 1>>}
RotationInputs == {[x |-> 1, y |-> 2]}
\* What gl.getSupportedExtensions() answers: null (context lost), an empty
\* list, or the two extensions of the unit test.
ExtensionAnswers == {"null", "empty", "some"}
SupportedExtensions(answer) ==
  IF answer = "some" THEN {"EXT_texture_filter_anisotropic", "WEBGL_lose_context"}
  ELSE {}
\* Calls since a clear at which the tracker's checkWebGLSupport is explored:
\* on an empty list and on a full one.
CheckPoints == {0, maxStoredErrors}

\* What a subscriber callback does when it is invoked.
Behaviour(fn) ==
  CASE fn = "thrower" -> "throw"
    [] fn = "stopper" -> "stop"
    [] fn = "leaver"  -> "unsubscribe"
    [] OTHER          -> "ok"

\* Texts are sequences of characters; a character beyond ASCII is written
\* by its code point.  The capitals of the texts: A-Z, the Latin-1 capitals
\* U+00C0-U+00DE and the Kelvin sign, each above its lowercase; the texts
\* hold no other cased character but the dotted capital I (U+0130).
UpperCase ==
  <<"A", "B", "C", "D", "E", "F", "G", "H", "I", "J", "K", "L", "M", "N",
    "O", "P", "Q", "R", "S", "T", "U", "V", "W", "X", "Y", "Z", "U+00C0",
    "U+00C1", "U+00C2", "U+00C3", "U+00C4", "U+00C5", "U+00C6", "U+00C7",
    "U+00C8", "U+00C9", "U+00CA", "U+00CB", "U+00CC", "U+00CD", "U+00CE",
    "U+00CF", "U+00D0", "U+00D1", "U+00D2", "U+00D3", "U+00D4", "U+00D5",
    "U+00D6", "U+00D8", "U+00D9", "U+00DA", "U+00DB", "U+00DC", "U+00DD",
    "U+00DE", "U+212A">>
LowerCase ==
  <<"a", "b", "c", "d", "e", "f", "g", "h", "i", "j", "k", "l", "m", "n",
    "o", "p", "q", "r", "s", "t", "u", "v", "w", "x", "y", "z", "U+00E0",
    "U+00E1", "U+00E2", "U+00E3", "U+00E4", "U+00E5", "U+00E6", "U+00E7",
    "U+00E8", "U+00E9", "U+00EA", "U+00EB", "U+00EC", "U+00ED", "U+00EE",
    "U+00EF", "U+00F0", "U+00F1", "U+00F2", "U+00F3", "U+00F4", "U+00F5",
    "U+00F6", "U+00F8", "U+00F9", "U+00FA", "U+00FB", "U+00FC", "U+00FD",
    "U+00FE", "k">>

\* Messages of unhandled faults: "WebGL lost", "bad SHADER", "global",
\* "out of memory", and "Echec WebGL" with E acute.
FaultMessages ==
  {<<"W", "e", "b", "G", "L", " ", "l", "o", "s", "t">>,
   <<"U+00C9", "c", "h", "e", "c", " ", "W", "e", "b", "G", "L">>,
   <<"b", "a", "d", " ", "S", "H", "A", "D", "E", "R">>,
   <<"g", "l", "o", "b", "a", "l">>,
   <<"o", "u", "t", " ", "o", "f", " ", "m", "e", "m", "o", "r", "y">>}

\* What an unhandled fault carries as event.error / event.reason: an Error
\* object holding the message, the message itself as a thrown or rejected
\* string, or (error events only) nothing.
FaultValues == {"Error", "string", "null"}
Faults == [message : FaultMessages, value : FaultValues]

\* Lengths of a pause between stopMonitoring() and startMonitoring(), in ms.
PauseMs == {1000, 5000}

\* event.code of the key events explored: forward, backward, up, and a key
\* the controller does not map.
KeyCodes == {"KeyW", "ArrowDown", "Space", "KeyQ"}

\* The key events explored together with the look.
LookCodes == {"KeyW", "KeyQ"}

\* event.button: left, right.
Buttons == {0, 2}

\* event.movementY of a pointer move, in pixels: one radian either way at
\* lookSpeed 2.
LookMoves == {250, -250}

\* touch.clientY of a touch, in pixels: a move between the two is one radian.
TouchPoints == {0, 500}

\* Seconds between two frames of the renderer, the `delta` of useFrame:
\* 0.008 = 8 / 1000 and 0.1 = 100 / 1000.
Frame8ms == [neg |-> FALSE, exp |-> -59, hi |-> 34359738, lo |-> 49392124]
Frame100ms == [neg |-> FALSE, exp |-> -56, hi |-> 53687091, lo |-> 26843546]
Deltas == {Frame8ms, Frame100ms}

\* ------------------------------------------------- JavaScript numbers
\* A number of the program is an IEEE-754 binary64 value: zero, or
\* (-1)^neg * (hi * 2^27 + lo) * 2^exp with a mantissa hi * 2^27 + lo of
\* exactly 53 bits (2^25 <= hi < 2^26, 0 <= lo < 2^27).  Every operation
\* rounds its exact result to the nearest such value, ties to the even
\* mantissa, as the processor does.  The two zeros are one value here (the
\* program never divides by a zero or asks a zero for its sign), and no
\* operation of the program overflows, underflows or yields NaN.
\* An operator is a substitution: an argument that occurs n times in its
\* body is computed n times.  Apply gives the value of F at the values of
\* the arguments, each computed once.
Apply(F(_), a) == CHOOSE r \in {F(x) : x \in {a}} : TRUE
Apply2(F(_, _), a, b) == CHOOSE r \in {F(x, y) : x \in {a}, y \in {b}} : TRUE

Two14 == 2^14
Two27 == 2^27
DZero == [neg |-> FALSE, exp |-> 0, hi |-> 0, lo |-> 0]
IsZero(a) == a.hi = 0

\* The number of bits of n, for n < 2^4, n < 2^8 and n < 2^31.
Bits4(n) == IF n < 4 THEN (IF n < 2 THEN n ELSE 2) ELSE (IF n < 8 THEN 3 ELSE 4)
Bits8(n) == IF n < 16 THEN Bits4(n) ELSE 4 + Bits4(n \div 16)
BitsOf(n) ==
  IF n < 65536
  THEN (IF n < 256 THEN Bits8(n) ELSE 8 + Bits8(n \div 256))
  ELSE (IF n < 16777216 THEN 16 + Bits8(n \div 65536)
        ELSE 24 + Bits8(n \div 16777216))

\* The number nearest (-1)^neg * (hi * 2^27 + lo + f) * 2^exp, where the
\* fraction f is in (0, 1) when `sticky` and 0 otherwise.
\* for a mantissa hi * 2^27 + lo of `len` bits.
RoundAt(neg, hi, lo, exp, sticky, len) ==
  IF len = 0 THEN DZero
  ELSE IF len <= 53
  THEN LET s == 53 - len
       IN [neg |-> neg, exp |-> exp - s,
           hi |-> IF s >= 27 THEN lo * 2^(s - 27)
                  ELSE hi * 2^s + lo \div 2^(27 - s),
           lo |-> IF s >= 27 THEN 0 ELSE (lo % 2^(27 - s)) * 2^s]
  ELSE LET k == len - 53
           guard == (lo \div 2^(k - 1)) % 2
           rest == sticky \/ lo % 2^(k - 1) # 0
           l == lo \div 2^k + (hi % 2^k) * 2^(27 - k)
           up == guard = 1 /\ (rest \/ l % 2 = 1)
           l1 == IF up THEN l + 1 ELSE l
           h1 == hi \div 2^k + l1 \div Two27
       IN IF h1 = 2^26
          THEN [neg |-> neg, exp |-> exp + k + 1, hi |-> 2^25, lo |-> 0]
          ELSE [neg |-> neg, exp |-> exp + k, hi |-> h1, lo |-> l1 % Two27]

Round(neg, hi, lo, exp, sticky) ==
  CHOOSE r \in {RoundAt(n, h, l, e, s, IF h > 0 THEN 27 + BitsOf(h) ELSE BitsOf(l)) :
                  n \in {neg}, h \in {hi}, l \in {lo}, e \in {exp}, s \in {sticky}} :
    TRUE

\* An integer literal or counter.
FromInt(n) ==
  Apply(LAMBDA m : Round(n < 0, m \div Two27, m % Two27, 0, FALSE),
        IF n < 0 THEN 0 - n ELSE n)

\* -a
DNeg(a) == Apply(LAMBDA x : IF IsZero(x) THEN x ELSE [x EXCEPT !.neg = ~x.neg], a)

\* |a| < |b|
MagLess(a, b) ==
  IF IsZero(b) THEN FALSE
  ELSE IF IsZero(a) THEN TRUE
  ELSE \/ a.exp < b.exp
       \/ a.exp = b.exp /\ (a.hi < b.hi \/ (a.hi = b.hi /\ a.lo < b.lo))

\* a < b
Less(a, b) ==
  IF IsZero(a) THEN ~IsZero(b) /\ ~b.neg
  ELSE IF IsZero(b) THEN a.neg
  ELSE IF a.neg # b.neg THEN a.neg
  ELSE IF a.neg THEN MagLess(b, a) ELSE MagLess(a, b)

DLt(a, b) == Apply2(Less, a, b)

\* Math.max(a, b) and Math.min(a, b)
DMax(a, b) == Apply2(LAMBDA x, y : IF Less(x, y) THEN y ELSE x, a, b)
DMin(a, b) == Apply2(LAMBDA x, y : IF Less(y, x) THEN y ELSE x, a, b)

\* a * b: the mantissas are multiplied in limbs of 14 bits.
Times(a, b) ==
  IF IsZero(a) \/ IsZero(b) THEN DZero
  ELSE
  LET a1 == a.lo % Two14
      a2 == a.lo \div Two14 + (a.hi % 2) * 8192
      a3 == (a.hi \div 2) % Two14
      a4 == a.hi \div 32768
      b1 == b.lo % Two14
      b2 == b.lo \div Two14 + (b.hi % 2) * 8192
      b3 == (b.hi \div 2) % Two14
      b4 == b.hi \div 32768
      t1 == a1 * b1
      t2 == a1 * b2 + a2 * b1 + t1 \div Two14
      t3 == a1 * b3 + a2 * b2 + a3 * b1 + t2 \div Two14
      t4 == a1 * b4 + a2 * b3 + a3 * b2 + a4 * b1 + t3 \div Two14
      t5 == a2 * b4 + a3 * b3 + a4 * b2 + t4 \div Two14
      t6 == a3 * b4 + a4 * b3 + t5 \div Two14
      t7 == a4 * b4 + t6 \div Two14
      p4 == t4 % Two14
      p5 == t5 % Two14
      p6 == t6 % Two14
      sticky == t1 % Two14 # 0 \/ t2 % Two14 # 0 \/ t3 % Two14 # 0 \/ p4 % 128 # 0
  IN Round(a.neg # b.neg,
           p6 \div 64 + (t7 % Two14) * 256 + (t7 \div Two14) * 4194304,
           p4 \div 128 + p5 * 128 + (p6 % 64) * 2097152,
           a.exp + b.exp + 49, sticky)

DMul(a, b) == Apply2(Times, a, b)

\* a + b: the smaller operand is shifted under the larger one, with three
\* guard bits and the rest of it as a sticky bit.
Plus(a, b) ==
  IF IsZero(a) THEN b
  ELSE IF IsZero(b) THEN a
  ELSE
  LET x == IF MagLess(a, b) THEN b ELSE a
      y == IF MagLess(a, b) THEN a ELSE b
      d == x.exp - y.exp
      xhi == x.hi * 8 + x.lo \div 16777216
      xlo == (x.lo % 16777216) * 8
      yhi0 == y.hi * 8 + y.lo \div 16777216
      ylo0 == (y.lo % 16777216) * 8
      yhi == IF d < 27 THEN yhi0 \div 2^d ELSE 0
      ylo == IF d < 27 THEN ylo0 \div 2^d + (yhi0 % 2^d) * 2^(27 - d)
             ELSE IF d < 57 THEN yhi0 \div 2^(d - 27) ELSE 0
      lost == IF d < 27 THEN ylo0 % 2^d # 0
              ELSE IF d < 57 THEN ylo0 # 0 \/ yhi0 % 2^(d - 27) # 0
              ELSE TRUE
  IN IF x.neg = y.neg
     THEN Round(x.neg, xhi + yhi + (xlo + ylo) \div Two27, (xlo + ylo) % Two27,
                x.exp - 3, lost)
     ELSE LET l == xlo - ylo - (IF lost THEN 1 ELSE 0)
          IN Round(x.neg, xhi - yhi - (IF l < 0 THEN 1 ELSE 0),
                   IF l < 0 THEN l + Two27 ELSE l, x.exp - 3, lost)

DAdd(a, b) == Apply2(Plus, a, b)

\* a - b
DSub(a, b) == DAdd(a, DNeg(b))

\* q * d in limbs of 27 bits, for q and d below 2^27.
Product(q, d) ==
  Apply2(LAMBDA x, y :
           LET mid == (x \div Two14) * (y % Two14) + (x % Two14) * (y \div Two14)
               low == (mid % 8192) * Two14 + (x % Two14) * (y % Two14)
           IN [hi |-> 2 * (x \div Two14) * (y \div Two14) + mid \div 8192
                        + low \div Two27,
               lo |-> low % Two27], q, d)

\* Three bits of a long division by d < 2^28: n is the next digit of the
\* dividend in base 8, s.r what the digits before it leave over and s.q
\* their quotient.
QuotientStep(s, n, d) ==
  Apply(LAMBDA v : [q |-> 8 * v.q + (8 * v.r + n) \div d,
                    r |-> (8 * v.r + n) % d], s)

\* The same for the k digits of n in base 8, from the top, taken by halves:
\* the upper digits, then the lower ones from where those ended.
RECURSIVE QuotientSteps(_, _, _, _)
QuotientSteps(s, n, d, k) ==
  IF k = 1 THEN QuotientStep(s, n, d)
  ELSE Apply(LAMBDA half : QuotientSteps(half, n % 8^(k \div 2), d, k \div 2),
             QuotientSteps(s, n \div 8^(k \div 2), d, k - k \div 2))

\* The divisor is added back to a remainder that went below zero, and the
\* digit is one less.
AddBack(s, d1, d0) ==
  Apply(LAMBDA v : IF v.hi >= 0 THEN v
                   ELSE [q |-> v.q - 1,
                         hi |-> v.hi + d1 + (v.lo + d0) \div Two27,
                         lo |-> (v.lo + d0) % Two27], s)

\* One digit in base 2^27 of a long division: the quotient q of
\* (r1, r0) * 2^27 by the divisor (d1, d0) and what it leaves over, for
\* (r1, r0) < (d1, d0) and d1 >= 2^26.  The quotient by d1 alone is q, q + 1
\* or q + 2.
Digit(r1, r0, d1, d0) ==
  AddBack(
    AddBack(
      Apply(LAMBDA e :
              Apply(LAMBDA p : [q |-> e.q,
                                hi |-> e.r - p.hi - (IF p.lo > 0 THEN 1 ELSE 0),
                                lo |-> (Two27 - p.lo) % Two27],
                    Product(e.q, d0)),
            IF r1 >= d1 THEN [q |-> Two27 - 1, r |-> r0 + d1]
            ELSE QuotientSteps([q |-> 0, r |-> r1], r0, d1, 9)),
      d1, d0),
    d1, d0)

\* a / b, for b # 0: 54 bits of the quotient of the mantissas, as two
\* digits of the division of a's mantissa (doubled when it is below b's) by
\* twice b's.
Over(a, b) ==
  IF IsZero(a) THEN DZero
  ELSE LET ge == a.hi > b.hi \/ (a.hi = b.hi /\ a.lo >= b.lo)
           d1 == 2 * b.hi + (2 * b.lo) \div Two27
           d0 == (2 * b.lo) % Two27
       IN Apply(LAMBDA first :
                  Apply(LAMBDA second :
                          Round(a.neg # b.neg, first.q, second.q,
                                a.exp - b.exp - 54 + (IF ge THEN 1 ELSE 0),
                                second.hi # 0 \/ second.lo # 0),
                        Digit(first.hi, first.lo, d1, d0)),
                Digit(IF ge THEN a.hi ELSE 2 * a.hi + (2 * a.lo) \div Two27,
                      IF ge THEN a.lo ELSE (2 * a.lo) % Two27, d1, d0))

DDiv(a, b) == Apply2(Over, a, b)

\* One bit of a square root.  s.t is the root of the digits of the radicand
\* taken so far and s.r what they leave over; d is its next digit in base 4.
SqrtStep(s, d) ==
  Apply(LAMBDA v : IF 4 * v.r + d >= 4 * v.t + 1
                   THEN [t |-> 2 * v.t + 1, r |-> 4 * v.r + d - 4 * v.t - 1]
                   ELSE [t |-> 2 * v.t, r |-> 4 * v.r + d], s)

\* The same after the k digits of n in base 4, from the top, taken by
\* halves.
RECURSIVE SqrtDigits(_, _, _)
SqrtDigits(s, n, k) ==
  IF k = 1 THEN SqrtStep(s, n)
  ELSE Apply(LAMBDA half : SqrtDigits(half, n % 4^(k \div 2), k \div 2),
             SqrtDigits(s, n \div 4^(k \div 2), k - k \div 2))

\* The root and the rest of (n * b + a1) * b + a0 from the root s.t and the
\* rest s.r of n, for n >= b * b / 4: the quotient q of s.r * b + a1 by
\* 2 * s.t is appended to the root, or q - 1 when q * q exceeds what is left.
Widen(s, a1, a0, b) ==
  Apply(LAMBDA v :
          Apply(LAMBDA w : IF w.r < 0 THEN [t |-> w.t - 1, r |-> w.r + 2 * w.t - 1]
                           ELSE w,
                LET num == v.r * b + a1
                    q == num \div (2 * v.t)
                IN [t |-> v.t * b + q,
                    r |-> (num % (2 * v.t)) * b + a0 - q * q]), s)

\* The root of m * 2^54 from the root t of m and its rest r (m = t * t + r),
\* rounded: the 54 bits of the root are t and the quotient q of r * 2^27 by
\* 2 * t, or q - 1 when q * q exceeds what that division leaves over, times
\* 2^27.  The root is exact when r = 0.
SqrtLower(t, r, e) ==
  Apply(LAMBDA lower :
          Apply(LAMBDA square :
                  Round(FALSE, t,
                        IF lower.r < square.hi
                             \/ (lower.r = square.hi /\ square.lo > 0)
                        THEN lower.q - 1 ELSE lower.q,
                        e \div 2 - 27, r # 0),
                IF lower.q = Two27 THEN [hi |-> Two27, lo |-> 0]
                ELSE Product(lower.q, lower.q)),
        IF r = 2 * t THEN [q |-> Two27, r |-> 0]
        ELSE QuotientSteps([q |-> 0, r |-> r], 0, 2 * t, 9))

\* The root of the mantissa m = (mhi, mlo) times 2^e, for an even e and
\* 2^52 <= m < 2^54.  The root of 4 * m is widened twice from the root of
\* its upper 14 bits; half of it is the root of m.
SqrtEven(mhi, mlo, e) ==
  Apply(LAMBDA n :
          Apply(LAMBDA w :
                  SqrtLower(w.t \div 2,
                            IF w.t % 2 = 0 THEN w.r \div 4
                            ELSE w.t \div 2 + (w.r + 1) \div 4, e),
                Widen(Widen(SqrtDigits([t |-> 0, r |-> 0], n \div Two14, 7),
                            (n \div 128) % 128, n % 128, 128),
                      (mlo % 67108864) \div 4096, (mlo % 4096) * 4, Two14)),
        2 * mhi + mlo \div 67108864)

\* Math.sqrt(a), for a >= 0.
Root(a) ==
  IF IsZero(a) THEN DZero
  ELSE IF a.exp % 2 = 1
  THEN SqrtEven(2 * a.hi + (2 * a.lo) \div Two27, (2 * a.lo) % Two27, a.exp - 1)
  ELSE SqrtEven(a.hi, a.lo, a.exp)

DSqrt(a) == Apply(Root, a)

\* n / d for two integers, which is also the value of the decimal literal
\* n / d (0.1 is Quotient(1, 10)): the number nearest the fraction.
Quotient(n, d) == DDiv(FromInt(n), FromInt(d))

\* 1 = FromInt(1).
One == [neg |-> FALSE, exp |-> -52, hi |-> 33554432, lo |-> 0]

\* Math.PI = 7074237752028440 * 2^-51.
MathPI == [neg |-> FALSE, exp |-> -51, hi |-> 52707178, lo |-> 71576856]

\* ------------------------------------------------------------- vectors
\* THREE.Vector3.
Vec(x, y, z) == [x |-> x, y |-> y, z |-> z]
V3(x, y, z) == Vec(FromInt(x), FromInt(y), FromInt(z))
\* add(v), sub(v), multiplyScalar(k), addScaledVector(v, s)
VecAdd(a, b) ==
  Apply2(LAMBDA u, v : Vec(DAdd(u.x, v.x), DAdd(u.y, v.y), DAdd(u.z, v.z)), a, b)
VecSub(a, b) ==
  Apply2(LAMBDA u, v : Vec(DSub(u.x, v.x), DSub(u.y, v.y), DSub(u.z, v.z)), a, b)
VecScale(a, k) ==
  Apply2(LAMBDA u, s : Vec(DMul(u.x, s), DMul(u.y, s), DMul(u.z, s)), a, k)
AddScaledVector(a, v, s) == VecAdd(a, VecScale(v, s))
\* crossVectors(a, b)
Cross(a, b) ==
  Apply2(LAMBDA u, v : Vec(DSub(DMul(u.y, v.z), DMul(u.z, v.y)),
                           DSub(DMul(u.z, v.x), DMul(u.x, v.z)),
                           DSub(DMul(u.x, v.y), DMul(u.y, v.x))), a, b)

\* length(): Math.sqrt(x * x + y * y + z * z).
Length(a) ==
  Apply(LAMBDA v : DSqrt(DAdd(DAdd(DMul(v.x, v.x), DMul(v.y, v.y)),
                              DMul(v.z, v.z))), a)

\* distanceTo(b): Math.sqrt(distanceToSquared(b)), on the differences a - b.
DistanceTo(a, b) == Length(VecSub(a, b))

\* normalize(): divideScalar(length() || 1), and divideScalar(s) is
\* multiplyScalar(1 / s).
Normalize(a) ==
  Apply(LAMBDA v :
          VecScale(v, DDiv(One,
                           Apply(LAMBDA len : IF IsZero(len) THEN One ELSE len,
                                 Length(v)))), a)

\* Array.prototype.indexOf, 1-based; 0 when absent.
RECURSIVE IndexFrom(_, _, _)
IndexFrom(s, x, i) ==
  IF i > Len(s) THEN 0 ELSE IF s[i] = x THEN i ELSE IndexFrom(s, x, i + 1)
IndexOf(s, x) == IndexFrom(s, x, 1)

\* Array.prototype.splice(index, 1)
Splice(s, i) == SubSeq(s, 1, i - 1) \o SubSeq(s, i + 1, Len(s))

\* cancelAnimationFrame: drop the handle from a callback list.
RECURSIVE Without(_, _)
Without(s, h) ==
  IF s = <<>> THEN <<>>
  ELSE IF Head(s) = h THEN Without(Tail(s), h)
  ELSE <<Head(s)>> \o Without(Tail(s), h)

RECURSIVE Elems(_)
Elems(s) == IF s = <<>> THEN {} ELSE {Head(s)} \cup Elems(Tail(s))

\* requestAnimationFrame returns a handle that names no other live callback:
\* the least handle not in `used`.
FreshHandle(used) ==
  CHOOSE h \in 1..(Cardinality(used) + 1) :
    /\ h \notin used
    /\ \A k \in 1..(h - 1) : k \in used

\* ------------------------------------------------------------------ state
VARIABLES
  frameCount, lastTime, fpsCalculationStartTime, fps, frameTime,
  fpsHistory, performanceMode, targetFPS, callbacks, animationFrameId,
  now,          \* performance.now()
  frameMs,      \* current display refresh interval
  rafQueue,     \* handles registered for the next refresh
  due,          \* handles of the refresh in progress, not yet run
  stopped,      \* stopMonitoring() returned and startMonitoring() not called since
  requestedMode,\* argument of the last setPerformanceMode call
  last,         \* what the last step did (observation)
  handles,      \* unsubscribe handles returned so far: [fn, called]
  capability,   \* result of the last PerformanceService.checkWebGLSupport()
  errors, performanceIssues,  \* ErrorTrackingService lists, most recent first
  tracked,      \* trackError / trackPerformanceIssue calls since the last clearErrors
  trackerLast,  \* what the last ErrorTrackingService call did (observation)
  sceneState,   \* the fields of the scene store (useSceneStore state)
  dateNow,      \* the last Date.now() reading
  storeLast,    \* what the last store operation did (observation)
  surface,      \* the document's canvas and the tracker's listener on it
  controller,   \* the CameraController: refs, state, and the camera it moves
  renderLoop,   \* handle of the renderer's frame loop (Null before the Canvas mounts)
  sceneContent, \* what the Canvas holds: SceneContent's listeners and timer
  navigation    \* the state of the use3DNavigation hook

vars == <<frameCount, lastTime, fpsCalculationStartTime, fps, frameTime,
          fpsHistory, performanceMode, targetFPS, callbacks, animationFrameId,
          now, frameMs, rafQueue, due, stopped, requestedMode, last,
          handles, capability, errors, performanceIssues, tracked,
          trackerLast, sceneState, dateNow, storeLast, surface,
          controller, renderLoop, sceneContent, navigation>>

governor == <<frameCount, lastTime, fpsCalculationStartTime, fps, frameTime,
              fpsHistory, performanceMode, targetFPS, callbacks>>

\* The frame loop's scheduling state and the observations of the governor.
scheduler == <<animationFrameId, now, frameMs, rafQueue, due, stopped,
               requestedMode, last>>

\* The ErrorTrackingService singleton.
telemetry == <<errors, performanceIssues, tracked, trackerLast>>

\* The scene store.
store == <<sceneState, dateNow, storeLast>>

\* The scene component: the renderer's loop and the navigation hook.
scene == <<renderLoop, sceneContent, navigation>>

\* The page around the services: the render surface, the camera, the scene.
application == <<surface, controller, scene>>

\* Everything outside the frame loop and the listener list.
components == <<handles, capability, telemetry, store, application>>

\* ------------------------------------------------------- pure operations
performanceSettings(mode) ==
  CASE mode = "high"   -> [targetFPS |-> 60, antialias |-> TRUE,  shadows |-> TRUE,
                           textureQuality |-> 100, renderScale |-> 100]
    [] mode = "medium" -> [targetFPS |-> 45, antialias |-> TRUE,  shadows |-> FALSE,
                           textureQuality |-> 75,  renderScale |-> 80]
    [] mode = "low"    -> [targetFPS |-> 30, antialias |-> FALSE, shadows |-> FALSE,
                           textureQuality |-> 50,  renderScale |-> 60]
    [] mode = "auto"   -> [targetFPS |-> 60, antialias |-> TRUE,  shadows |-> TRUE,
                           textureQuality |-> 100, renderScale |-> 100]

\* this.fps at a window close: 60 frames over the elapsed milliseconds.
InstantFPSOneFrame(elapsedTime) == Quotient(1000, elapsedTime)

InstantFPS(elapsedTime) == DDiv(DMul(FromInt(60), FromInt(1000)), FromInt(elapsedTime))

\* reduce((a, b) => a + b, 0): the samples are added from the left.
RECURSIVE Reduce(_, _)
Reduce(sum, s) ==
  IF s = <<>> THEN sum
  ELSE Apply(LAMBDA a : Reduce(a, Tail(s)), DAdd(sum, Head(s)))

\* getAverageFPS(): the sum of the history over its length, or fps while
\* it is empty.
getAverageFPSInstant(history, currentFps) == currentFps

getAverageFPS(history, currentFps) ==
  IF Len(history) = 0 THEN currentFps
  ELSE DDiv(Reduce(DZero, history), FromInt(Len(history)))

updateFPSHistoryKeepOldest(history, sample) ==
  IF Len(history) >= HistoryCap THEN history ELSE Append(history, sample)

updateFPSHistory(history, sample) ==
  LET h == Append(history, sample)
  IN IF Len(h) > HistoryCap THEN Tail(h) ELSE h

\* averageFPS < k and averageFPS > k for a threshold k.
Below(averageFPS, k) == DLt(averageFPS, FromInt(k))
Above(averageFPS, k) == DLt(FromInt(k), averageFPS)

autoAdjustPerformanceNoFloor(mode, averageFPS) ==
  IF Below(averageFPS, MediumThreshold) /\ mode = "high" THEN "medium"
  ELSE IF Above(averageFPS, UpgradeThreshold) /\ mode = "low" THEN "medium"
  ELSE IF Above(averageFPS, UpgradeThreshold) /\ mode = "medium" THEN "high"
  ELSE mode

autoAdjustPerformanceLoose(mode, averageFPS) ==
  IF Below(averageFPS, MediumThreshold) /\ mode # "low" THEN "low"
  ELSE IF Below(averageFPS, MediumThreshold) /\ mode = "high" THEN "medium"
  ELSE IF Above(averageFPS, UpgradeThreshold) /\ mode = "low" THEN "medium"
  ELSE IF Above(averageFPS, UpgradeThreshold) /\ mode = "medium" THEN "high"
  ELSE mode

autoAdjustPerformance(mode, averageFPS) ==
  IF Below(averageFPS, LowThreshold) /\ mode # "low" THEN "low"
  ELSE IF Below(averageFPS, MediumThreshold) /\ mode = "high" THEN "medium"
  ELSE IF Above(averageFPS, UpgradeThreshold) /\ mode = "low" THEN "medium"
  ELSE IF Above(averageFPS, UpgradeThreshold) /\ mode = "medium" THEN "high"
  ELSE mode

\* The auto-adjust guard of the window close: the table is consulted only
\* while the mode field itself is 'auto'.
AutoGuardAlways(mode) == TRUE

AutoGuard(mode) == mode = "auto"

\* The window test of the frame callback.
IsWindowCloseHalf(count) == count % 30 = 0

IsWindowClose(count) == count % WindowFrames = 0

\* ------------------------------------------------------------ scene store
\* Math.min and Math.max of two numbers: NaN if either is NaN.
MathMin(a, b) ==
  IF a.nan \/ b.nan THEN NaN ELSE IF a.value < b.value THEN a ELSE b

MathMax(a, b) ==
  IF a.nan \/ b.nan THEN NaN ELSE IF a.value > b.value THEN a ELSE b

\* The value setLoadingProgress stores.
ClampProgress(progress) == MathMax(Number(0), MathMin(Number(100), progress))

\* initialState, created when Date.now() = time.
initialState(time) ==
  [loaded |-> FALSE,
   currentZone |-> "main",
   loadingProgress |-> Number(0),
   userPosition |-> <<0, 0, 5>>,
   cameraTarget |-> <<0, 0, 0>>,
   cameraRotation |-> [x |-> 0, y |-> 0],
   performanceMode |-> "auto",
   currentFPS |-> 60,
   averageFPS |-> 60,
   userPreferences |-> [reducedMotion |-> FALSE, audioEnabled |-> TRUE,
                        skipIntroduction |-> FALSE, performanceMode |-> "auto"],
   isNavigating |-> FALSE,
   lastInteractionTime |-> time,
   error |-> "null"]

\* Observation left by a store operation other than resetScene.
NoStoreCall == [op |-> "other", dirty |-> 0]

\* The fields of s, lastInteractionTime aside, that differ from initialState.
DirtyFields(s) ==
  {f \in DOMAIN s \ {"lastInteractionTime"} : s[f] # initialState(0)[f]}

\* if (object.key): the property exists and is not undefined (the mode
\* names are non-empty strings).
Truthy(object, key) == key \in DOMAIN object /\ object[key] # Undefined

\* { ...base, ...partial }
Spread(base, partial) ==
  [k \in DOMAIN base \cup DOMAIN partial |->
     IF k \in DOMAIN partial THEN partial[k] ELSE base[k]]

\* --------------------------------------------------- ErrorTrackingService
\* Array.prototype.unshift and Array.prototype.slice(from, to), 0-based.
Unshift(list, entry) == <<entry>> \o list

Slice(list, from, to) ==
  SubSeq(list, from + 1, IF to < Len(list) THEN to ELSE Len(list))

\* trackError lines 77-81: insert at the front, keep the first 50.
StoreErrorDropNewest(list, entry) ==
  LET l == Unshift(list, entry)
  IN IF Len(l) > maxStoredErrors THEN Slice(l, 1, maxStoredErrors + 1) ELSE l

StoreError(list, entry) ==
  LET l == Unshift(list, entry)
  IN IF Len(l) > maxStoredErrors THEN Slice(l, 0, maxStoredErrors) ELSE l

\* trackPerformanceIssue lines 90-94: insert at the front, keep the first 100.
StoreIssueDropNewest(list, entry) ==
  LET l == Unshift(list, entry)
  IN IF Len(l) > maxStoredIssues THEN Slice(l, 1, maxStoredIssues + 1) ELSE l

StoreIssue(list, entry) ==
  LET l == Unshift(list, entry)
  IN IF Len(l) > maxStoredIssues THEN Slice(l, 0, maxStoredIssues) ELSE l

\* reportToAnalytics: calls window.gtag when it exists; nothing catches what
\* gtag throws.
reportToAnalytics(sink) ==
  CASE sink = "ok"     -> "sent"
    [] sink = "throws" -> "threw"
    [] OTHER           -> "skipped"

\* The forwarding step of trackError / trackPerformanceIssue.
Forward(prod, sink) ==
  IF sink # "no_window" /\ prod THEN reportToAnalytics(sink) ELSE "skipped"

\* The characters of the texts that toLowerCase leaves as they are: the
\* lowercase letters of the table, the space, the underscore, the full stop
\* and the combining dot.
Uncased ==
  {LowerCase[i] : i \in 1..Len(LowerCase)} \cup {" ", "_", ".", "U+0307"}

\* String.prototype.toLowerCase, character by character: the lowercase of
\* a character is a text (that of U+0130 is i followed by the combining dot
\* U+0307).  The operator is defined for the characters of the texts: the
\* capitals of the table, U+0130 and the uncased characters; the lowercase
\* of any other character (a Greek or Cyrillic capital, the final sigma) is
\* not modelled.
ToLowerChar(c) ==
  IF c = "U+0130" THEN <<"i", "U+0307">>
  ELSE IF \E i \in 1..Len(UpperCase) : UpperCase[i] = c
  THEN <<LowerCase[CHOOSE i \in 1..Len(UpperCase) : UpperCase[i] = c]>>
  ELSE CHOOSE lower \in {<<c>>} : c \in Uncased

RECURSIVE ToLowerCase(_)
ToLowerCase(text) ==
  IF text = <<>> THEN <<>>
  ELSE ToLowerChar(Head(text)) \o ToLowerCase(Tail(text))

\* String.prototype.includes: the first position from `from` at which `part`
\* starts, if any.
StartsWithAt(text, part, at) ==
  /\ at + Len(part) - 1 <= Len(text)
  /\ SubSeq(text, at, at + Len(part) - 1) = part

RECURSIVE IncludesFrom(_, _, _)
IncludesFrom(text, part, from) ==
  IF from + Len(part) - 1 > Len(text) THEN FALSE
  ELSE IF StartsWithAt(text, part, from) THEN TRUE
  ELSE IncludesFrom(text, part, from + 1)

Includes(text, part) == IncludesFrom(text, part, 1)

webglKeywords ==
  <<<<"w", "e", "b", "g", "l">>,
    <<"g", "l", "_">>,
    <<"s", "h", "a", "d", "e", "r">>,
    <<"t", "e", "x", "t", "u", "r", "e">>,
    <<"b", "u", "f", "f", "e", "r">>,
    <<"f", "r", "a", "m", "e", "b", "u", "f", "f", "e", "r">>,
    <<"t", "h", "r", "e", "e", ".", "j", "s">>,
    <<"t", "h", "r", "e", "e", "j", "s">>,
    <<"w", "e", "b", "g", "l", "r", "e", "n", "d", "e", "r", "e", "r">>,
    <<"g", "l", "c", "o", "n", "t", "e", "x", "t">>>>

\* error.message of the value a fault carries: a string primitive has no
\* message property.
MessageOf(fault) == IF fault.value = "Error" THEN fault.message ELSE <<>>

isWebGLRelated(fault) ==
  IF fault.value = "null" THEN FALSE
  ELSE LET errorMessage == ToLowerCase(MessageOf(fault))
       IN \E k \in 1..Len(webglKeywords) : Includes(errorMessage, webglKeywords[k])

\* reduce((acc, e) => { acc[e.type] = (acc[e.type] || 0) + 1; return acc }, {})
\* (each entry adds one to the count of its type: the counts are taken per
\* type, which nests no deeper for a full list)
CountByType(list, acc) ==
  [k \in DOMAIN acc \cup {list[i].type : i \in 1..Len(list)} |->
     (IF k \in DOMAIN acc THEN acc[k] ELSE 0)
       + Cardinality({i \in 1..Len(list) : list[i].type = k})]

NoCounts == [k \in {} |-> 0]

getErrorSummaryShort(list) ==
  [total |-> Len(list),
   byType |-> CountByType(list, NoCounts),
   recent |-> Slice(list, 0, RecentCount - 1)]

getErrorSummary(list) ==
  [total |-> Len(list),
   byType |-> CountByType(list, NoCounts),
   recent |-> Slice(list, 0, RecentCount)]

getPerformanceSummary(list) ==
  [total |-> Len(list),
   byType |-> CountByType(list, NoCounts),
   recent |-> Slice(list, 0, RecentCount)]

NoSummary == [total |-> 0, byType |-> NoCounts, recent |-> <<>>]

\* canvas.getContext(type) on a canvas whose context mode is `mode`.
GetContext(mode, type, platform, canvas) ==
  LET created == /\ platform[type]
                 /\ canvas = "stub" \/ mode \in {"none", type}
  IN [ok |-> created,
      mode |-> IF created /\ mode = "none" THEN type ELSE mode]

\* ------------------------------------------------ subscriber notification
\* this.callbacks.forEach(callback => callback(metrics)): visits indices
\* 1..len of the live array, len fixed when forEach starts; an exception
\* thrown by a callback ends the iteration.  st carries the fields the
\* callbacks can touch.
RECURSIVE ForEach(_, _, _)
ForEach(k, len, st) ==
  IF k > len \/ st.threw THEN st
  ELSE IF k > Len(st.callbacks) THEN ForEach(k + 1, len, st)
  ELSE
    LET fn == st.callbacks[k]
        s1 == [st EXCEPT !.invoked = Append(@, fn)]
        b  == Behaviour(fn)
        s2 == CASE b = "throw" -> [s1 EXCEPT !.threw = TRUE]
                [] b = "stop" ->
                     \* stopMonitoring() called from inside the callback
                     IF s1.animationFrameId # Null
                     THEN [s1 EXCEPT !.rafQueue = Without(@, s1.animationFrameId),
                                     !.due = Without(@, s1.animationFrameId),
                                     !.animationFrameId = Null,
                                     !.stopped = TRUE]
                     ELSE [s1 EXCEPT !.stopped = TRUE]
                [] b = "unsubscribe" ->
                     \* the callback calls its own unsubscribe handle
                     LET index == IndexOf(s1.callbacks, fn)
                     IN IF index > 0
                        THEN [s1 EXCEPT !.callbacks = Splice(@, index)]
                        ELSE s1
                [] OTHER -> s1
    IN ForEach(k + 1, len, s2)

\* Observation left by a step that closes no sampling window.
NoClose ==
  [close |-> FALSE, registered |-> <<>>, invoked |-> <<>>, threw |-> FALSE,
   modeBefore |-> "auto", modeAfter |-> "auto", requested |-> "auto",
   evaluated |-> FALSE, average |-> DZero]

\* Nothing has queried the platform capability yet.
NoCapability ==
  [called |-> FALSE, webgl1 |-> FALSE, webgl2 |-> FALSE, extensions |-> {}]

\* Observation left by a step that calls no ErrorTrackingService operation.
NoCall ==
  [op |-> "none", returned |-> TRUE, logged |-> FALSE, forwarded |-> FALSE,
   context |-> "none",
   supported |-> FALSE, version |-> "", renderer |-> "",
   summary |-> NoSummary, cleared |-> 0]

\* ------------------------------------------------------ CameraController
\* The literals 0.5, 50, 100 and 0.1 of lines 248-259, as the numbers the
\* engine reads them as: MinHeight = Quotient(1, 2), MaxHeight = FromInt(50),
\* maxDistance = FromInt(100), PublishEpsilon = Quotient(1, 10).
MinHeight == [neg |-> FALSE, exp |-> -53, hi |-> 33554432, lo |-> 0]
MaxHeight == [neg |-> FALSE, exp |-> -47, hi |-> 52428800, lo |-> 0]
maxDistance == [neg |-> FALSE, exp |-> -46, hi |-> 52428800, lo |-> 0]
PublishEpsilon == [neg |-> FALSE, exp |-> -56, hi |-> 53687091, lo |-> 26843546]

\* Math.PI / 2 and -Math.PI / 2.
\* Halving is exact: DDiv(MathPI, FromInt(2)) and DDiv(DNeg(MathPI), FromInt(2)).
HalfPi == [neg |-> FALSE, exp |-> -52, hi |-> 52707178, lo |-> 71576856]
NegHalfPi == [neg |-> TRUE, exp |-> -52, hi |-> 52707178, lo |-> 71576856]

\* Line 198: Math.max(-Math.PI / 2, Math.min(Math.PI / 2, -mousePos.y)).
ClampPitchBelowOnly(mouseY) == DMax(NegHalfPi, DNeg(mouseY))

ClampPitch(mouseY) == DMax(NegHalfPi, DMin(HalfPi, DNeg(mouseY)))

\* Lines 204-211: the raw direction of the held keys.
RawDirection(keys) ==
  V3((IF keys.right THEN 1 ELSE 0) - (IF keys.left THEN 1 ELSE 0),
     (IF keys.up THEN 1 ELSE 0) - (IF keys.down THEN 1 ELSE 0),
     (IF keys.backward THEN 1 ELSE 0) - (IF keys.forward THEN 1 ELSE 0))

Up == V3(0, 1, 0)

\* Lines 229-230: camera.getWorldDirection(), the negated third column of
\* the camera's world matrix, normalized.  The matrix of a camera whose
\* rotation is zero is the identity and the direction is (0, 0, -1); the
\* matrix of a turned camera holds sines and cosines of the angles, and the
\* vector is defined for the unturned camera only.
getWorldDirection(rotation) ==
  CHOOSE cameraDirection \in {V3(0, 0, -1)} :
    IsZero(rotation.x) /\ IsZero(rotation.y)

\* Lines 225-245: the position after the movement of one frame of `delta`
\* seconds, for a camera turned by `rotation`.
Velocity(direction, right, forward) ==
  AddScaledVector(
    AddScaledVector(
      AddScaledVector(V3(0, 0, 0), right, direction.x),
      Up, direction.y),
    forward, DNeg(direction.z))

Moved(position, keys, rotation, delta) ==
  IF DLt(DZero, Length(RawDirection(keys)))
  THEN VecAdd(position,
              VecScale(
                Apply2(LAMBDA direction, right :
                         Velocity(direction, right, Normalize(Cross(Up, right))),
                       Normalize(RawDirection(keys)),
                       Normalize(Cross(getWorldDirection(rotation), Up))),
                DMul(FromInt(movementSpeed), delta)))
  ELSE position

\* Lines 248-249.
ClampHeight(position) ==
  [position EXCEPT !.y = DMin(MaxHeight, DMax(MinHeight, @))]

\* Lines 251-254.
ClampRadiusToUnit(position) ==
  Apply(LAMBDA p : IF DLt(maxDistance, Length(p)) THEN Normalize(p) ELSE p,
        position)

ClampRadius(position) ==
  Apply(LAMBDA p : IF DLt(maxDistance, Length(p))
                   THEN VecScale(Normalize(p), maxDistance)
                   ELSE p,
        position)

\* Lines 257-263: the position is published when it is more than 0.1 away
\* from the last published one.
ShouldPublishAlways(lastPosition, position) == lastPosition # position

ShouldPublish(lastPosition, position) ==
  Apply2(LAMBDA from, to : from # to /\ DLt(PublishEpsilon, DistanceTo(from, to)),
         lastPosition, position)

\* camera.position when the controller mounts: the scene's default, a point
\* one step inside the far boundary at floor height, and two points at
\* distance 150.
StartPositions ==
  {V3(0, 0, 5), Vec(FromInt(10), Quotient(1, 2), FromInt(99)), V3(0, 150, 0),
   V3(144, 42, 0)}

\* The controller after its first render: no key held, no look offset, the
\* camera where the Canvas put it.  `mousePos` and `isMouseDown` are the
\* React state as last rendered, which the frame callback reads; `next` is
\* what the queued setMousePos / setIsMouseDown calls make of it at the next
\* render; `handlers` is the isMouseDown the registered mouse handlers closed
\* over, that of the render whose effect of lines 106-145 ran last.  `lockRequests` are the calls of
\* requestPointerLock ("lock") and exitPointerLock ("exit") the browser has
\* not answered yet.  `frames` counts the frame updates and `frame` tells
\* what the last step did if it was one: "published" or "kept" the position
\* (observations).
NewController(position) ==
  [keys |-> [forward |-> FALSE, backward |-> FALSE, left |-> FALSE,
             right |-> FALSE, up |-> FALSE, down |-> FALSE],
   mousePos |-> [x |-> DZero, y |-> DZero],
   isMouseDown |-> FALSE,
   next |-> [mousePos |-> [x |-> DZero, y |-> DZero],
             isMouseDown |-> FALSE],
   handlers |-> [isMouseDown |-> FALSE],
   pointerLocked |-> FALSE,
   lockRequests |-> <<>>,
   touch |-> [isTouching |-> FALSE, x |-> 0, y |-> 0],
   position |-> position,
   rotation |-> [x |-> DZero, y |-> DZero],
   lastPosition |-> V3(0, 0, 0),
   frames |-> 0,
   frame |-> "none"]

\* ------------------------------------------------------------------- Init
\* State after `new PerformanceService()`: the constructor has called
\* startMonitoring(), so one frame callback is pending.
InitServices ==
  /\ frameCount = 0
  /\ now = 0
  /\ lastTime = 0
  /\ fpsCalculationStartTime = 0
  /\ fps = FromInt(60)
  /\ frameTime = Quotient(1667, 100)
  /\ fpsHistory = <<>>
  /\ performanceMode = "auto"
  /\ targetFPS = 60
  /\ callbacks = <<>>
  /\ animationFrameId = 1
  /\ rafQueue = <<1>>
  /\ due = <<>>
  /\ frameMs \in FrameMsSet
  /\ stopped = FALSE
  /\ requestedMode = "auto"
  /\ last = NoClose
  /\ handles = <<>>
  /\ capability = NoCapability
  /\ errors = <<>>
  /\ performanceIssues = <<>>
  /\ tracked = [errors |-> 0, issues |-> 0]
  /\ trackerLast = NoCall
  /\ dateNow = 0
  /\ storeLast = NoStoreCall

\* use3DNavigation's useState initial value: `state` is navigationState as
\* last rendered, `next` is what the queued setNavigationState calls make of
\* it at the next render.  `rendered`: PortfolioScene has rendered;
\* `pending`: the passive effects of the last commit that have not run yet
\* ("mount": those of the first render, "update": those of a later one);
\* `mode`: the performanceMode prop of the last render; `changed`: the
\* dependencies of the pending effects that differ from the render before.
\* `notified`: a window-close notification is queued; `noticed`: the last
\* commit took one in; `processed`: the effects of a render that took the
\* last notification in have run and no window closed since (observations).
NavigationState0 ==
  [performanceMode |-> "auto", fps |-> FromInt(60),
   frameTime |-> Quotient(1667, 100),
   isWebGLSupported |-> FALSE]

\* What the Canvas holds before its content has mounted.  `listening`: the
\* passive effects of CameraController have run, its listeners are on the
\* document and the canvas; `timer`: the timer SceneContent arms for
\* onSceneReady ("none", "armed", "fired"), due at `readyAt`; `isLoading`:
\* PortfolioScene's isLoading state as its next render reads it; `clock`:
\* the renderer's clock is running (its first reading starts it).
NoContent ==
  [listening |-> FALSE, timer |-> "none", readyAt |-> 0, isLoading |-> TRUE,
   clock |-> FALSE]

\* No Canvas is mounted, nothing has rendered.
InitScene ==
  /\ renderLoop = Null
  /\ sceneContent = NoContent
  /\ navigation = [state |-> NavigationState0, next |-> NavigationState0,
                   notified |-> FALSE, rendered |-> FALSE, processed |-> FALSE,
                   pending |-> "none", mode |-> "auto", noticed |-> FALSE,
                   changed |-> [fps |-> FALSE, isWebGLSupported |-> FALSE]]

InitBase ==
  /\ InitServices
  /\ InitScene
  /\ sceneState = initialState(0)

\* The store with its numbers held as the program computes them.
ExactStore(s) ==
  [s EXCEPT !.userPosition = V3(@[1], @[2], @[3]),
            !.cameraRotation = [x |-> FromInt(@.x), y |-> FromInt(@.y)],
            !.currentFPS = FromInt(@),
            !.averageFPS = FromInt(@)]

\* The tracker singleton was constructed when its module was loaded, before
\* the page had a canvas.
NoSurface == [canvas |-> FALSE, hooked |-> FALSE]

Init ==
  /\ InitBase
  /\ surface = NoSurface
  /\ controller = NewController(V3(0, 0, 5))

\* ---------------------------------------------------------------- actions
\* One display refresh with at least one callback registered: the clock
\* advances and the callbacks registered so far become the callbacks of this
\* frame.  (Refreshes with nothing registered run no code and are not
\* explored, so no time passes while monitoring is stopped.)
Refresh ==
  /\ due = <<>>
  /\ rafQueue # <<>>
  /\ now' = now + frameMs
  /\ due' = rafQueue
  /\ rafQueue' = <<>>
  /\ last' = NoClose
  /\ UNCHANGED components
  /\ UNCHANGED <<governor, animationFrameId, frameMs, stopped, requestedMode>>

\* The display (or the load on it) changes its refresh interval.
SetFrameMs(t) ==
  /\ due = <<>>
  /\ frameCount % WindowFrames = 0
  /\ t # frameMs
  /\ frameMs' = t
  /\ last' = NoClose
  /\ UNCHANGED components
  /\ UNCHANGED <<governor, animationFrameId, now, rafQueue, due, stopped,
                 requestedMode>>

\* One execution of the `monitor` closure, for the first handle of the frame
\* (explored while fewer than `limit` executions have happened).
Monitor(limit) ==
  /\ due # <<>>
  /\ Head(due) # renderLoop
  /\ frameCount < limit
  /\ LET currentTime == now
         count == frameCount + 1
         handle == Head(due)
         rest == Tail(due)
     IN /\ frameTime' = FromInt(currentTime - lastTime)
        /\ lastTime' = currentTime
        /\ frameCount' = count
        /\ IF IsWindowClose(count)
           THEN LET elapsedTime == currentTime - fpsCalculationStartTime
                    newFps == InstantFPS(elapsedTime)
                    history == updateFPSHistory(fpsHistory, newFps)
                    average == getAverageFPS(history, newFps)
                    evaluated == AutoGuard(performanceMode)
                    mode == IF evaluated
                            THEN autoAdjustPerformance(performanceMode, average)
                            ELSE performanceMode
                    st == ForEach(1, Len(callbacks),
                            [callbacks |-> callbacks,
                             animationFrameId |-> animationFrameId,
                             rafQueue |-> rafQueue, due |-> rest,
                             stopped |-> stopped, invoked |-> <<>>,
                             threw |-> FALSE])
                IN /\ fps' = newFps
                   /\ fpsCalculationStartTime' = currentTime
                   /\ fpsHistory' = history
                   /\ performanceMode' = mode
                   /\ callbacks' = st.callbacks
                   /\ due' = st.due
                   /\ IF st.threw
                      THEN \* the exception leaves monitor before line 95
                           /\ animationFrameId' = st.animationFrameId
                           /\ rafQueue' = st.rafQueue
                           /\ stopped' = st.stopped
                      ELSE LET h == FreshHandle(Elems(st.rafQueue) \cup Elems(st.due)
                                                  \cup {st.animationFrameId, handle})
                           IN /\ animationFrameId' = h
                              /\ rafQueue' = Append(st.rafQueue, h)
                              /\ stopped' = st.stopped
                   /\ last' = [close |-> TRUE,
                               registered |-> callbacks, invoked |-> st.invoked,
                               threw |-> st.threw, modeBefore |-> performanceMode,
                               modeAfter |-> mode, requested |-> requestedMode,
                               evaluated |-> evaluated, average |-> average]
           ELSE /\ LET h == FreshHandle(Elems(rafQueue) \cup Elems(rest)
                                          \cup {animationFrameId, handle})
                   IN /\ animationFrameId' = h
                      /\ rafQueue' = Append(rafQueue, h)
                /\ due' = rest
                /\ last' = NoClose
                /\ UNCHANGED <<fps, fpsCalculationStartTime, fpsHistory,
                               performanceMode, callbacks, stopped>>
  /\ navigation' =
       IF last'.close /\ HookListener \in Elems(last'.invoked)
       THEN \* use3DNavigation's callback queues the metrics it was given
            [navigation EXCEPT
               !.next = [@ EXCEPT !.performanceMode = performanceMode',
                                  !.fps = fps', !.frameTime = frameTime'],
               !.notified = TRUE,
               !.processed = FALSE]
       ELSE navigation
  /\ UNCHANGED <<targetFPS, now, frameMs, requestedMode>>
  /\ UNCHANGED <<handles, capability, telemetry, store, surface, controller,
                 renderLoop, sceneContent>>

\* The refresh interval changes after the first or after the thirtieth
\* sampling window.
SetFrameMsAt(t) ==
  /\ frameCount \in RatePoints
  /\ SetFrameMs(t)

StartMonitoring ==
  /\ due = <<>>
  /\ frameCount % WindowFrames \in CallPoints
  /\ Len(rafQueue) < MaxLoops
  /\ LET h == FreshHandle(Elems(rafQueue) \cup {animationFrameId})
     IN /\ animationFrameId' = h
        /\ rafQueue' = Append(rafQueue, h)
  /\ stopped' = FALSE
  /\ last' = NoClose
  /\ UNCHANGED components
  /\ UNCHANGED <<governor, now, frameMs, due, requestedMode>>

\* startMonitoring() after stopMonitoring(): one loop again.
Resume ==
  /\ stopped
  /\ StartMonitoring

\* Time passes while no frame callback is registered (the governor is
\* stopped): the first pause since the last callback, `ms` long.
Idle(ms) ==
  /\ due = <<>>
  /\ rafQueue = <<>>
  /\ stopped
  /\ now = lastTime
  /\ now' = now + ms
  /\ last' = NoClose
  /\ UNCHANGED components
  /\ UNCHANGED <<governor, animationFrameId, frameMs, rafQueue, due, stopped,
                 requestedMode>>

StopMonitoring ==
  /\ due = <<>>
  /\ frameCount % WindowFrames \in CallPoints
  /\ IF animationFrameId # Null
     THEN /\ rafQueue' = Without(rafQueue, animationFrameId)
          /\ animationFrameId' = Null
     ELSE UNCHANGED <<rafQueue, animationFrameId>>
  /\ stopped' = TRUE
  /\ last' = NoClose
  /\ UNCHANGED components
  /\ UNCHANGED <<governor, now, frameMs, due, requestedMode>>

SetPerformanceMode(mode) ==
  /\ due = <<>>
  /\ performanceMode' = mode
  /\ targetFPS' = performanceSettings(mode).targetFPS
  /\ requestedMode' = mode
  /\ last' = NoClose
  /\ UNCHANGED components
  /\ UNCHANGED <<frameCount, lastTime, fpsCalculationStartTime, fps, frameTime,
                 fpsHistory, callbacks, animationFrameId, now, frameMs,
                 rafQueue, due, stopped>>

Subscribe(fn) ==
  /\ due = <<>>
  /\ Len(callbacks) < MaxListeners
  /\ callbacks' = Append(callbacks, fn)
  /\ last' = NoClose
  /\ UNCHANGED components
  /\ UNCHANGED <<frameCount, lastTime, fpsCalculationStartTime, fps, frameTime,
                 fpsHistory, performanceMode, targetFPS, animationFrameId, now,
                 frameMs, rafQueue, due, stopped, requestedMode>>

\* The handle returned by subscribe(fn), called outside a notification.
Unsubscribe(fn) ==
  /\ due = <<>>
  /\ LET index == IndexOf(callbacks, fn)
     IN callbacks' = IF index > 0 THEN Splice(callbacks, index) ELSE callbacks
  /\ last' = NoClose
  /\ UNCHANGED components
  /\ UNCHANGED <<frameCount, lastTime, fpsCalculationStartTime, fps, frameTime,
                 fpsHistory, performanceMode, targetFPS, animationFrameId, now,
                 frameMs, rafQueue, due, stopped, requestedMode>>

\* subscribe(fn), keeping the handle it returns: handle h is the closure
\* over the h-th subscribed callback.
SubscribeHandle(fn) ==
  /\ due = <<>>
  /\ frameCount % WindowFrames \in CallPoints
  /\ Len(handles) < MaxHandles
  /\ callbacks' = Append(callbacks, fn)
  /\ handles' = Append(handles, [fn |-> fn, called |-> FALSE])
  /\ last' = NoClose
  /\ UNCHANGED <<frameCount, lastTime, fpsCalculationStartTime, fps, frameTime,
                 fpsHistory, performanceMode, targetFPS, animationFrameId, now,
                 frameMs, rafQueue, due, stopped, requestedMode>>
  /\ UNCHANGED <<capability, telemetry, store, application>>

\* A call of the h-th handle: the closure looks its callback up by value.
CallHandle(h) ==
  /\ due = <<>>
  /\ frameCount % WindowFrames \in CallPoints
  /\ h \in 1..Len(handles)
  /\ LET index == IndexOf(callbacks, handles[h].fn)
     IN callbacks' = IF index > 0 THEN Splice(callbacks, index) ELSE callbacks
  /\ handles' = [handles EXCEPT ![h].called = TRUE]
  /\ last' = NoClose
  /\ UNCHANGED <<frameCount, lastTime, fpsCalculationStartTime, fps, frameTime,
                 fpsHistory, performanceMode, targetFPS, animationFrameId, now,
                 frameMs, rafQueue, due, stopped, requestedMode>>
  /\ UNCHANGED <<capability, telemetry, store, application>>

\* PerformanceService.checkWebGLSupport(): one new canvas is asked for a
\* webgl context, then for a webgl2 context, then for the context whose
\* extensions are listed (webgl2, or else webgl).
WebGLInfo(platform, canvas, answer) ==
  LET first == GetContext("none", "webgl1", platform, canvas)
      second == GetContext(first.mode, "webgl2", platform, canvas)
      third == GetContext(second.mode, "webgl2", platform, canvas)
      fourth == GetContext(third.mode, "webgl1", platform, canvas)
      gl == third.ok \/ fourth.ok
  IN [called |-> TRUE,
      webgl1 |-> first.ok,
      webgl2 |-> second.ok,
      extensions |-> IF gl THEN SupportedExtensions(answer) ELSE {}]

CheckWebGLSupport(platform, canvas, answer) ==
  /\ due = <<>>
  /\ capability' = WebGLInfo(platform, canvas, answer)
  /\ last' = NoClose
  /\ UNCHANGED <<governor, animationFrameId, now, frameMs, rafQueue, due,
                 stopped, requestedMode, handles, telemetry, store, application>>

\* ----------------------------------------------------- scene store actions
\* A store operation leaves everything outside the store alone.
StoreOnly ==
  UNCHANGED <<governor, scheduler, handles, capability, telemetry, application>>

\* An operation that does not read the clock.
NoClock == dateNow' = dateNow /\ storeLast' = NoStoreCall

\* Date.now() returns `time`: the clock never runs backwards.
ReadClock(time) == time \in dateNow..MaxTime /\ dateNow' = time

SetLoaded(loaded) ==
  /\ sceneState' = [sceneState EXCEPT !.loaded = loaded]
  /\ StoreOnly
  /\ NoClock

SetCurrentZone(zone) ==
  /\ sceneState' = [sceneState EXCEPT !.currentZone = zone]
  /\ StoreOnly
  /\ NoClock

SetLoadingProgress(progress) ==
  /\ sceneState' = [sceneState EXCEPT !.loadingProgress = ClampProgress(progress)]
  /\ StoreOnly
  /\ NoClock

StoreSetPerformanceMode(mode) ==
  /\ sceneState' = [sceneState EXCEPT !.performanceMode = mode,
                                      !.userPreferences.performanceMode = mode]
  /\ StoreOnly
  /\ NoClock

UpdateFPS(value) ==
  /\ sceneState' = [sceneState EXCEPT !.currentFPS = value]
  /\ StoreOnly
  /\ NoClock

UpdateAverageFPS(value) ==
  /\ sceneState' = [sceneState EXCEPT !.averageFPS = value]
  /\ StoreOnly
  /\ NoClock

UpdateUserPreferences(preferences) ==
  /\ sceneState' =
       [sceneState EXCEPT
          !.userPreferences = Spread(@, preferences),
          !.performanceMode = IF Truthy(preferences, "performanceMode")
                              THEN preferences.performanceMode ELSE @]
  /\ StoreOnly
  /\ NoClock

SetIsNavigating(navigating) ==
  /\ sceneState' = [sceneState EXCEPT !.isNavigating = navigating]
  /\ StoreOnly
  /\ NoClock

UpdateLastInteractionTime(time) ==
  /\ ReadClock(time)
  /\ sceneState' = [sceneState EXCEPT !.lastInteractionTime = time]
  /\ storeLast' = NoStoreCall
  /\ StoreOnly

UpdateUserPosition(position) ==
  /\ sceneState' = [sceneState EXCEPT !.userPosition = position]
  /\ StoreOnly
  /\ NoClock

UpdateCameraTarget(target) ==
  /\ sceneState' = [sceneState EXCEPT !.cameraTarget = target]
  /\ StoreOnly
  /\ NoClock

UpdateCameraRotation(rotation) ==
  /\ sceneState' = [sceneState EXCEPT !.cameraRotation = rotation]
  /\ StoreOnly
  /\ NoClock

SetError(error) ==
  /\ sceneState' = [sceneState EXCEPT !.error = error]
  /\ StoreOnly
  /\ NoClock

\* A reset that keeps the user preferences.
ResetSceneKeepPreferences(time) ==
  /\ ReadClock(time)
  /\ sceneState' = [initialState(time) EXCEPT
                      !.userPreferences = sceneState.userPreferences]
  /\ storeLast' = [op |-> "resetScene", dirty |-> Cardinality(DirtyFields(sceneState))]
  /\ StoreOnly

ResetScene(time) ==
  /\ ReadClock(time)
  /\ sceneState' = initialState(time)
  /\ storeLast' = [op |-> "resetScene", dirty |-> Cardinality(DirtyFields(sceneState))]
  /\ StoreOnly

\* initializeDefaults(): isMobile from the user agent, isLowEndDevice from
\* navigator.hardwareConcurrency, prefersReducedMotion from matchMedia.
WithDefaults(s, isMobile, isLowEndDevice, prefersReducedMotion, time) ==
  LET s1 == IF isMobile \/ isLowEndDevice
            THEN [s EXCEPT !.performanceMode = "medium",
                           !.userPreferences.performanceMode = "medium"]
            ELSE s
      s2 == IF prefersReducedMotion
            THEN [s1 EXCEPT !.userPreferences.reducedMotion = TRUE]
            ELSE s1
  IN [s2 EXCEPT !.lastInteractionTime = time]

InitializeDefaults(isMobile, isLowEndDevice, prefersReducedMotion, time) ==
  /\ ReadClock(time)
  /\ storeLast' = NoStoreCall
  /\ sceneState' = WithDefaults(sceneState, isMobile, isLowEndDevice,
                                prefersReducedMotion, time)
  /\ StoreOnly

\* ------------------------------------------------- scene composition
\* navigationState.isWebGLSupported of use3DNavigation, as last rendered:
\* false until the render that follows the mount effect.
IsWebGLSupported == navigation.state.isWebGLSupported

WebGLErrorMessage == "WebGL is not supported on this device/browser"

\* The mount effect of use3DNavigation, lines 28-33: the result of the
\* capability query is queued for the next render.
NavigationMount(nav, webglInfo) ==
  [nav EXCEPT !.isWebGLSupported = webglInfo.webgl1 \/ webglInfo.webgl2]

\* The "Set initial performance mode" effect of PortfolioScene on the store.
\* It runs after every render: setPerformanceMode is a new function in each
\* and sceneState is the whole store.
PerformanceModeEffect(s, mode) ==
  [s EXCEPT !.performanceMode = mode, !.userPreferences.performanceMode = mode]

\* The "Sync performance data" effect, for navigationState.fps as rendered.
SyncEffect(s, renderedFps) ==
  [s EXCEPT !.currentFPS = renderedFps, !.averageFPS = renderedFps]

\* The "Check WebGL support" effect, for navigationState.isWebGLSupported
\* as rendered.
WebGLSupportEffect(s, isWebGLSupported) ==
  [s EXCEPT !.error = IF ~isWebGLSupported THEN WebGLErrorMessage ELSE "null"]

\* The first render of PortfolioScene under the performanceMode prop `mode`
\* is committed.  Its effects are passive (useEffect): React runs them after
\* the commit, in a later task, so frame callbacks can run in between.
SceneMount(mode) ==
  /\ due = <<>>
  /\ ~navigation.rendered
  /\ navigation' = [navigation EXCEPT !.rendered = TRUE,
                                      !.pending = "mount",
                                      !.mode = mode]
  /\ last' = NoClose
  /\ NoClock
  /\ sceneState' = sceneState
  /\ UNCHANGED <<governor, animationFrameId, now, frameMs, rafQueue, due,
                 stopped, requestedMode>>
  /\ UNCHANGED <<handles, capability, telemetry, surface, controller,
                 renderLoop, sceneContent>>

\* The effects of the first render, in the order of their declaration: the
\* hook's mount effect (capability query, its result queued, subscription),
\* initializeDefaults, the mode effect, the sync effect and the capability
\* effect, which all read the hook's state of this render, the initial one.
MountEffects(platform, canvas, answer, device, time) ==
  /\ due = <<>>
  /\ navigation.pending = "mount"
  /\ capability' = WebGLInfo(platform, canvas, answer)
  /\ callbacks' = Append(callbacks, HookListener)
  /\ navigation' =
       [navigation EXCEPT
          !.next = [NavigationMount(@, capability')
                      EXCEPT !.performanceMode = navigation.mode],
          !.pending = "none"]
  /\ ReadClock(time)
  /\ sceneState' =
       WebGLSupportEffect(
         SyncEffect(
           PerformanceModeEffect(
             WithDefaults(sceneState, device.isMobile, device.isLowEndDevice,
                          device.prefersReducedMotion, time),
             navigation.mode),
           navigation.state.fps),
         navigation.state.isWebGLSupported)
  /\ performanceMode' = navigation.mode
  /\ targetFPS' = performanceSettings(navigation.mode).targetFPS
  /\ requestedMode' = navigation.mode
  /\ last' = NoClose
  /\ storeLast' = [op |-> "mount", dirty |-> 0]
  /\ UNCHANGED <<frameCount, lastTime, fpsCalculationStartTime, fps, frameTime,
                 fpsHistory, animationFrameId, now, frameMs, rafQueue, due,
                 stopped>>
  /\ UNCHANGED <<handles, telemetry, surface, controller, renderLoop,
                 sceneContent>>

\* A later render of PortfolioScene under the performanceMode prop `mode` is
\* committed: the queued hook state becomes the rendered one, and the
\* dependencies of the effects are compared with those of the render before.
\* React runs the passive effects of a commit before it renders again.
Render(mode) ==
  /\ due = <<>>
  /\ navigation.rendered
  /\ navigation.pending = "none"
  /\ navigation' =
       [navigation EXCEPT
          !.state = navigation.next,
          !.notified = FALSE,
          !.noticed = navigation.notified,
          !.pending = "update",
          !.mode = mode,
          !.changed = [fps |-> navigation.next.fps # navigation.state.fps,
                       isWebGLSupported |->
                         navigation.next.isWebGLSupported
                           # navigation.state.isWebGLSupported]]
  /\ last' = NoClose
  /\ NoClock
  /\ sceneState' = sceneState
  /\ UNCHANGED <<governor, animationFrameId, now, frameMs, rafQueue, due,
                 stopped, requestedMode>>
  /\ UNCHANGED <<handles, capability, telemetry, surface, controller,
                 renderLoop, sceneContent>>

\* The effects of a later render, in a task after its commit.  The mode
\* effect runs after every render; the sync effect when navigationState.fps
\* changed; the capability effect when navigationState.isWebGLSupported
\* changed.  They read the state of the render they belong to; the hook's
\* setPerformanceMode adds its update to the queue.
RenderEffects ==
  /\ due = <<>>
  /\ navigation.pending = "update"
  /\ LET rendered == navigation.state
         mode == navigation.mode
         synced == IF navigation.changed.fps
                   THEN SyncEffect(PerformanceModeEffect(sceneState, mode),
                                   rendered.fps)
                   ELSE PerformanceModeEffect(sceneState, mode)
     IN /\ navigation' =
             [navigation EXCEPT
                !.next.performanceMode = mode,
                !.pending = "none",
                !.noticed = FALSE,
                !.changed = [fps |-> FALSE, isWebGLSupported |-> FALSE],
                !.processed = @ \/ (navigation.noticed /\ ~navigation.notified)]
        /\ sceneState' =
             IF navigation.changed.isWebGLSupported
             THEN WebGLSupportEffect(synced, rendered.isWebGLSupported)
             ELSE synced
        /\ performanceMode' = mode
        /\ targetFPS' = performanceSettings(mode).targetFPS
        /\ requestedMode' = mode
  /\ last' = NoClose
  /\ dateNow' = dateNow
  /\ storeLast' = [op |-> "render", dirty |-> 0]
  /\ UNCHANGED <<frameCount, lastTime, fpsCalculationStartTime, fps, frameTime,
                 fpsHistory, callbacks, animationFrameId, now, frameMs,
                 rafQueue, due, stopped>>
  /\ UNCHANGED <<handles, capability, telemetry, surface, controller,
                 renderLoop, sceneContent>>

\* ------------------------------------------- ErrorTrackingService actions
\* trackError(error) in an environment where import.meta.env.PROD = prod and
\* the analytics sink is `sink` (explored while fewer than `limit` calls were
\* made since the last clear).  An exception thrown by gtag leaves trackError
\* before console.error.
TrackError(type, prod, sink, limit) ==
  /\ tracked.errors < limit
  /\ type \in ErrorChoices(tracked.errors)
  /\ LET report == Forward(prod, sink)
     IN /\ errors' = StoreError(errors, [type |-> type, id |-> tracked.errors + 1])
        /\ tracked' = [tracked EXCEPT !.errors = @ + 1]
        /\ trackerLast' = [NoCall EXCEPT !.op = "trackError",
                                         !.returned = (report # "threw"),
                                         !.logged = (report # "threw"),
                                         !.forwarded = (report = "sent")]
  /\ UNCHANGED <<performanceIssues, governor, scheduler, handles, capability,
                 store, application>>

TrackPerformanceIssue(type, prod, sink, limit) ==
  /\ tracked.issues < limit
  /\ type \in IssueChoices(tracked.issues)
  /\ LET report == Forward(prod, sink)
     IN /\ performanceIssues' =
             StoreIssue(performanceIssues, [type |-> type, id |-> tracked.issues + 1])
        /\ tracked' = [tracked EXCEPT !.issues = @ + 1]
        /\ trackerLast' = [NoCall EXCEPT !.op = "trackPerformanceIssue",
                                         !.returned = (report # "threw"),
                                         !.logged = (report # "threw"),
                                         !.forwarded = (report = "sent")]
  /\ UNCHANGED <<errors, governor, scheduler, handles, capability, store, application>>

GetErrorSummary ==
  /\ trackerLast' = [NoCall EXCEPT !.op = "getErrorSummary",
                                   !.summary = getErrorSummary(errors)]
  /\ UNCHANGED <<errors, performanceIssues, tracked, governor, scheduler,
                 handles, capability, store, application>>

GetPerformanceSummary ==
  /\ trackerLast' = [NoCall EXCEPT !.op = "getPerformanceSummary",
                                   !.summary = getPerformanceSummary(performanceIssues)]
  /\ UNCHANGED <<errors, performanceIssues, tracked, governor, scheduler,
                 handles, capability, store, application>>

\* The listener of the window's 'error' event, for a fault carried as
\* event.error with event.message = fault.message.
OnError(fault, prod, sink) ==
  /\ tracked.errors < MaxFaults
  /\ IF isWebGLRelated(fault)
     THEN LET report == Forward(prod, sink)
          IN /\ errors' = StoreError(errors, [type |-> "webgl_not_supported",
                                              id |-> tracked.errors + 1])
             /\ tracked' = [tracked EXCEPT !.errors = @ + 1]
             /\ trackerLast' = [NoCall EXCEPT !.op = "error",
                                              !.returned = (report # "threw"),
                                              !.logged = (report # "threw"),
                                              !.forwarded = (report = "sent")]
     ELSE /\ UNCHANGED <<errors, tracked>>
          /\ trackerLast' = [NoCall EXCEPT !.op = "error"]
  /\ UNCHANGED <<performanceIssues, governor, scheduler, handles, capability,
                 store, application>>

\* The listener of the window's 'unhandledrejection' event, for a rejection
\* whose reason is the value the fault carries.
OnUnhandledRejection(fault, prod, sink) ==
  /\ tracked.errors < MaxFaults
  /\ fault.value # "null"
  /\ IF isWebGLRelated(fault)
     THEN LET report == Forward(prod, sink)
          IN /\ errors' = StoreError(errors, [type |-> "model_load_error",
                                              id |-> tracked.errors + 1])
             /\ tracked' = [tracked EXCEPT !.errors = @ + 1]
             /\ trackerLast' = [NoCall EXCEPT !.op = "unhandledrejection",
                                              !.returned = (report # "threw"),
                                              !.logged = (report # "threw"),
                                              !.forwarded = (report = "sent")]
     ELSE /\ UNCHANGED <<errors, tracked>>
          /\ trackerLast' = [NoCall EXCEPT !.op = "unhandledrejection"]
  /\ UNCHANGED <<performanceIssues, governor, scheduler, handles, capability,
                 store, application>>

\* A clear that forgets the performance issues.
ClearErrorsOnly ==
  /\ errors' = <<>>
  /\ performanceIssues' = performanceIssues
  /\ tracked' = [errors |-> 0, issues |-> 0]
  /\ trackerLast' = [NoCall EXCEPT !.op = "clearErrors",
                                   !.cleared = Len(errors) + Len(performanceIssues)]
  /\ UNCHANGED <<governor, scheduler, handles, capability, store, application>>

ClearErrors ==
  /\ errors' = <<>>
  /\ performanceIssues' = <<>>
  /\ tracked' = [errors |-> 0, issues |-> 0]
  /\ trackerLast' = [NoCall EXCEPT !.op = "clearErrors",
                                   !.cleared = Len(errors) + Len(performanceIssues)]
  /\ UNCHANGED <<governor, scheduler, handles, capability, store, application>>

\* ErrorTrackingService.checkWebGLSupport(): gl is the webgl2 context, or
\* else the webgl context, of one new canvas; without one the failure goes
\* through trackError.  debugInfo: the WEBGL_debug_renderer_info extension
\* exists.
TrackerCheckWebGLSupport(platform, canvas, debugInfo, prod, sink) ==
  /\ tracked.errors \in CheckPoints
  /\ LET c2 == GetContext("none", "webgl2", platform, canvas)
         c1 == GetContext(c2.mode, "webgl1", platform, canvas)
         gl == IF c2.ok THEN "webgl2" ELSE IF c1.ok THEN "webgl1" ELSE "none"
         report == Forward(prod, sink)
     IN IF gl = "none"
        THEN /\ errors' = StoreError(errors, [type |-> "webgl_not_supported",
                                              id |-> tracked.errors + 1])
             /\ tracked' = [tracked EXCEPT !.errors = @ + 1]
             /\ trackerLast' = [NoCall EXCEPT !.op = "checkWebGLSupport",
                                              !.returned = (report # "threw"),
                                              !.logged = (report # "threw"),
                                              !.forwarded = (report = "sent")]
        ELSE /\ trackerLast' =
                  [NoCall EXCEPT !.op = "checkWebGLSupport",
                                 !.context = gl,
                                 !.supported = TRUE,
                                 !.version = IF gl = "webgl2" THEN "WebGL 2.0"
                                             ELSE "WebGL 1.0",
                                 !.renderer = IF debugInfo THEN "unmasked renderer"
                                              ELSE "Unknown"]
             /\ UNCHANGED <<errors, tracked>>
  /\ UNCHANGED <<performanceIssues, governor, scheduler, handles, capability,
                 store, application>>

\* ------------------------------------------------ CameraController actions
\* An event handler of the controller leaves the services and the store alone.
ControllerOnly ==
  UNCHANGED <<governor, scheduler, handles, capability, telemetry, store,
              surface, scene>>

\* handleKeyDown / handleKeyUp: the key of event.code is held or released.
KeyOf(code) ==
  IF code \in {"KeyW", "ArrowUp"} THEN "forward"
  ELSE IF code \in {"KeyS", "ArrowDown"} THEN "backward"
  ELSE IF code \in {"KeyA", "ArrowLeft"} THEN "left"
  ELSE IF code \in {"KeyD", "ArrowRight"} THEN "right"
  ELSE IF code = "Space" THEN "up"
  ELSE IF code \in {"ShiftLeft", "ShiftRight"} THEN "down"
  ELSE "none"

WithKey(keys, code, held) ==
  IF KeyOf(code) = "none" THEN keys ELSE [keys EXCEPT ![KeyOf(code)] = held]

KeyDown(code) ==
  /\ controller' = [controller EXCEPT !.keys = WithKey(@, code, TRUE),
                                      !.frame = "none"]
  /\ ControllerOnly

KeyUp(code) ==
  /\ controller' = [controller EXCEPT !.keys = WithKey(@, code, FALSE),
                                      !.frame = "none"]
  /\ ControllerOnly

\* handleMouseDown: the left button queues isMouseDown = true and asks the
\* browser for the pointer lock (explored while fewer than MaxLockRequests
\* calls wait for their answer).
MouseDown(button) ==
  /\ button = 0 => Len(controller.lockRequests) < MaxLockRequests
  /\ controller' = IF button = 0
                    THEN [controller EXCEPT
                            !.next.isMouseDown = TRUE,
                            !.lockRequests = Append(@, "lock"),
                            !.frame = "none"]
                    ELSE [controller EXCEPT !.frame = "none"]
  /\ ControllerOnly

\* handleMouseUp: the left button queues isMouseDown = false and asks the
\* browser to release the pointer.
MouseUp(button) ==
  /\ button = 0 => Len(controller.lockRequests) < MaxLockRequests
  /\ controller' = IF button = 0
                    THEN [controller EXCEPT
                            !.next.isMouseDown = FALSE,
                            !.lockRequests = Append(@, "exit"),
                            !.frame = "none"]
                    ELSE [controller EXCEPT !.frame = "none"]
  /\ ControllerOnly

\* The browser answers the oldest requestPointerLock(): it locks the pointer
\* to the canvas, or refuses (the user has just left a lock, the document is
\* not focused, the canvas is gone).
PointerLockGranted ==
  /\ controller.lockRequests # <<>>
  /\ Head(controller.lockRequests) = "lock"
  /\ controller' = [controller EXCEPT !.pointerLocked = TRUE,
                                      !.lockRequests = Tail(@),
                                      !.frame = "none"]
  /\ ControllerOnly

PointerLockRefused ==
  /\ controller.lockRequests # <<>>
  /\ Head(controller.lockRequests) = "lock"
  /\ controller' = [controller EXCEPT !.lockRequests = Tail(@),
                                      !.frame = "none"]
  /\ ControllerOnly

\* The browser answers the oldest exitPointerLock(): the pointer is free.
PointerLockReleased ==
  /\ controller.lockRequests # <<>>
  /\ Head(controller.lockRequests) = "exit"
  /\ controller' = [controller EXCEPT !.pointerLocked = FALSE,
                                      !.lockRequests = Tail(@),
                                      !.frame = "none"]
  /\ ControllerOnly

\* The browser ends the pointer lock (Escape, or the page loses focus); the
\* controller listens to no pointerlockchange event.
PointerLockExit ==
  /\ controller.pointerLocked
  /\ controller' = [controller EXCEPT !.pointerLocked = FALSE,
                                      !.frame = "none"]
  /\ ControllerOnly

\* React renders the controller again after a queued state update and
\* commits the render: from the commit on, the frame callback is that of the
\* new render (useFrame keeps it in a ref that a layout effect updates) and
\* reads the new state.  The mouse handlers stay those of an earlier render
\* until the passive effect has run, and React runs the passive effects of a
\* commit before it renders again.
ControllerRender ==
  /\ controller.handlers.isMouseDown = controller.isMouseDown
  /\ controller.next # [mousePos |-> controller.mousePos,
                        isMouseDown |-> controller.isMouseDown]
  /\ controller' = [controller EXCEPT !.mousePos = controller.next.mousePos,
                                      !.isMouseDown = controller.next.isMouseDown,
                                      !.frame = "none"]
  /\ ControllerOnly

\* The passive effect of lines 106-145, in a task after the commit: its
\* dependency isMouseDown changed, so the handlers of the render before are
\* removed and those of the committed render registered.
ControllerEffects ==
  /\ controller.handlers.isMouseDown # controller.isMouseDown
  /\ controller' = [controller EXCEPT
                      !.handlers.isMouseDown = controller.isMouseDown,
                      !.frame = "none"]
  /\ ControllerOnly

\* The literals 0.002 (line 116) and 0.001 (line 169): Quotient(2, 1000) and
\* Quotient(1, 1000).
MouseFactor == [neg |-> FALSE, exp |-> -61, hi |-> 34359738, lo |-> 49392124]
TouchFactor == [neg |-> FALSE, exp |-> -62, hi |-> 34359738, lo |-> 49392124]

\* prev + pixels * lookSpeed * factor: the look offset after a move of
\* `pixels`.
Look(offset, pixels, factor) ==
  DAdd(offset, DMul(DMul(FromInt(pixels), FromInt(lookSpeed)), factor))

WithinLook(offset) ==
  /\ ~DLt(FromInt(MaxLook), offset)
  /\ ~DLt(offset, FromInt(0 - MaxLook))

\* Lines 115-118 and 168-171: the updater given to setMousePos.
Looked(prev, pixelsX, pixelsY, factor) ==
  [x |-> Look(prev.x, pixelsX, factor), y |-> Look(prev.y, pixelsY, factor)]

\* handleMouseMove: the registered handler queues the new offset when the
\* render it belongs to had isMouseDown.
MouseMove(movementX, movementY) ==
  /\ \E moved \in {Looked(controller.next.mousePos, movementX, movementY,
                           MouseFactor)} :
        /\ WithinLook(moved.x) /\ WithinLook(moved.y)
        /\ controller' =
             IF ~controller.handlers.isMouseDown
             THEN [controller EXCEPT !.frame = "none"]
             ELSE [controller EXCEPT !.next.mousePos = moved, !.frame = "none"]
  /\ ControllerOnly

\* handleTouchStart, handleTouchMove, handleTouchEnd.
TouchStart(clientX, clientY) ==
  /\ controller' = [controller EXCEPT
                      !.touch = [isTouching |-> TRUE, x |-> clientX,
                                 y |-> clientY],
                      !.frame = "none"]
  /\ ControllerOnly

TouchMove(clientX, clientY) ==
  /\ \E moved \in {Looked(controller.next.mousePos,
                           clientX - controller.touch.x,
                           clientY - controller.touch.y, TouchFactor)} :
        /\ WithinLook(moved.x) /\ WithinLook(moved.y)
        /\ controller' =
             IF ~controller.touch.isTouching
             THEN [controller EXCEPT !.frame = "none"]
             ELSE [controller EXCEPT
                     !.next.mousePos = moved,
                     !.touch.x = clientX,
                     !.touch.y = clientY,
                     !.frame = "none"]
  /\ ControllerOnly

TouchEnd ==
  /\ controller' = [controller EXCEPT !.touch.isTouching = FALSE,
                                      !.frame = "none"]
  /\ ControllerOnly

\* The useFrame callback of the last commit, `delta` seconds after the
\* frame before, with Date.now() = time (explored for the first
\* MaxCameraFrames frames).
CameraUpdate(delta, time) ==
  /\ controller.frames < MaxCameraFrames
  /\ \E rotation \in {[x |-> ClampPitch(controller.mousePos.y),
                         y |-> DNeg(controller.mousePos.x)]},
        isMoving \in {DLt(DZero, Length(RawDirection(controller.keys)))} :
     \E position \in {ClampRadius(ClampHeight(
                        Moved(controller.position, controller.keys, rotation,
                              delta)))} :
     LET isRotating == controller.isMouseDown
         isNavigatingNow == isMoving \/ isRotating
         publish == ShouldPublish(controller.lastPosition, position)
     IN /\ controller' =
             [controller EXCEPT
                !.rotation = rotation,
                !.position = position,
                !.lastPosition = IF publish THEN position ELSE @,
                !.frames = @ + 1,
                !.frame = IF publish THEN "published" ELSE "kept"]
        /\ sceneState' =
             [sceneState EXCEPT
                !.cameraRotation = rotation,
                !.isNavigating = isNavigatingNow,
                !.lastInteractionTime = IF isNavigatingNow THEN time ELSE @,
                !.userPosition = IF publish THEN position ELSE @]
        /\ IF isNavigatingNow THEN ReadClock(time)
           ELSE time = dateNow /\ dateNow' = dateNow
  /\ storeLast' = [op |-> "useFrame", dirty |-> 0]

\* A frame of the renderer, the governor's loop aside.
UseFrame(delta, time) ==
  /\ CameraUpdate(delta, time)
  /\ UNCHANGED <<governor, scheduler, handles, capability, telemetry, surface,
                 scene>>

\* PortfolioScene reads the whole store (useSceneStore() without a
\* selector): a store write made outside a render makes React render it
\* again as soon as the writing callback has returned, before any other
\* callback runs, and run the effects of that render at once.  Effects
\* still pending from the commit before run first.  The render is under the
\* performanceMode prop of the render before (the parent does not render).
\* `taken`: the render takes in the hook state queued so far; React leaves
\* it to a later render when it was queued at a lower priority.  The mode
\* effect runs after every render, the sync effect and the capability
\* effect when their dependency changed.  The value: the hook's state and
\* the store once the effects have run; the governor's mode is then
\* `nav.mode`.
Rerender(nav, state, taken) ==
  LET Effects(n) ==
        [n EXCEPT
           !.next.performanceMode = n.mode,
           !.pending = "none",
           !.noticed = FALSE,
           !.changed = [fps |-> FALSE, isWebGLSupported |-> FALSE],
           !.processed = @ \/ (n.noticed /\ ~n.notified)]
      Stored(n, s) ==
        LET synced == IF n.changed.fps
                      THEN SyncEffect(PerformanceModeEffect(s, n.mode),
                                      n.state.fps)
                      ELSE PerformanceModeEffect(s, n.mode)
        IN IF n.changed.isWebGLSupported
           THEN WebGLSupportEffect(synced, n.state.isWebGLSupported)
           ELSE synced
      flushed == IF nav.pending = "update" THEN Effects(nav) ELSE nav
      before == IF nav.pending = "update" THEN Stored(nav, state) ELSE state
      committed ==
        IF taken
        THEN [flushed EXCEPT
                !.state = flushed.next,
                !.notified = FALSE,
                !.noticed = flushed.notified,
                !.pending = "update",
                !.changed = [fps |-> flushed.next.fps # flushed.state.fps,
                             isWebGLSupported |->
                               flushed.next.isWebGLSupported
                                 # flushed.state.isWebGLSupported]]
        ELSE [flushed EXCEPT
                !.noticed = FALSE,
                !.pending = "update",
                !.changed = [fps |-> FALSE, isWebGLSupported |-> FALSE]]
  IN [navigation |-> Effects(committed),
      sceneState |-> Stored(committed, before)]

\* The Canvas mounts its content: SceneContent and CameraController render
\* in the renderer's own root, a new controller with no key held and the
\* camera at initialCameraPosition, and the renderer starts its frame loop
\* with requestAnimationFrame.  The content renders after PortfolioScene's
\* first commit, and React runs the effects pending from a commit before it
\* renders again.  The effects of the content itself are CanvasEffects.
MountCanvas ==
  /\ due = <<>>
  /\ renderLoop = Null
  /\ navigation.rendered
  /\ navigation.pending = "none"
  /\ LET h == FreshHandle(Elems(rafQueue) \cup {animationFrameId})
     IN /\ renderLoop' = h
        /\ rafQueue' = Append(rafQueue, h)
  /\ controller' = NewController(V3(0, 0, 5))
  /\ sceneContent' = NoContent
  /\ last' = NoClose
  /\ UNCHANGED <<governor, animationFrameId, now, frameMs, due, stopped,
                 requestedMode>>
  /\ UNCHANGED <<handles, capability, telemetry, store, surface, navigation>>

\* The passive effects of the content, in a task after its commit:
\* CameraController puts its key, mouse and touch listeners on the document
\* and the canvas, and SceneContent arms the timer that calls onSceneReady
\* 100 ms later.
CanvasEffects ==
  /\ due = <<>>
  /\ renderLoop # Null
  /\ ~sceneContent.listening
  /\ sceneContent' = [sceneContent EXCEPT !.listening = TRUE,
                                          !.timer = "armed",
                                          !.readyAt = now + 100]
  /\ last' = NoClose
  /\ UNCHANGED <<governor, animationFrameId, now, frameMs, rafQueue, due,
                 stopped, requestedMode>>
  /\ UNCHANGED <<handles, capability, telemetry, store, surface, controller,
                 renderLoop, navigation>>

\* SceneContent's timer fires, between two display frames: PortfolioScene's
\* handleSceneReady queues isLoading = false, stores loaded = true and calls
\* the parent's onSceneReady, which only logs.  The store changes when
\* loaded was false, and PortfolioScene renders again at once.
SceneReady(taken) ==
  /\ due = <<>>
  /\ sceneContent.timer = "armed"
  /\ now >= sceneContent.readyAt
  /\ sceneContent' = [sceneContent EXCEPT !.timer = "fired",
                                          !.isLoading = FALSE]
  /\ IF sceneState.loaded
     THEN UNCHANGED <<sceneState, storeLast, navigation, performanceMode,
                    targetFPS, requestedMode>>
     ELSE /\ \E after \in {Rerender(navigation,
                                    [sceneState EXCEPT !.loaded = TRUE],
                                    taken)} :
               /\ navigation' = after.navigation
               /\ sceneState' = after.sceneState
          /\ performanceMode' = navigation.mode
          /\ targetFPS' = performanceSettings(navigation.mode).targetFPS
          /\ requestedMode' = navigation.mode
          /\ storeLast' = [op |-> "render", dirty |-> 0]
  /\ dateNow' = dateNow
  /\ last' = NoClose
  /\ UNCHANGED <<frameCount, lastTime, fpsCalculationStartTime, fps, frameTime,
                 fpsHistory, callbacks, animationFrameId, now, frameMs,
                 rafQueue, due, stopped>>
  /\ UNCHANGED <<handles, capability, telemetry, surface, controller,
                 renderLoop>>

\* The renderer's loop, for the first handle of the frame: it asks for the
\* next frame, then runs the useFrame callback with the time since the
\* frame before, as CameraUpdate does; `time` is its Date.now() reading.
\* The renderer's clock starts at its first reading: the first frame of the
\* renderer measures no time, and the camera does not move in it.
\* The callback writes the store (the
\* rotation it stores is a new object in every frame), so PortfolioScene
\* renders again and its mode effect puts the governor back into the mode
\* of the prop before the next callback of the frame runs.
RenderLoop ==
  /\ due # <<>>
  /\ Head(due) = renderLoop
  /\ controller.frames < MaxCameraFrames
  /\ LET h == FreshHandle(Elems(rafQueue) \cup Elems(Tail(due))
                            \cup {animationFrameId, renderLoop})
     IN /\ renderLoop' = h
        /\ rafQueue' = Append(rafQueue, h)
  /\ due' = Tail(due)
  /\ \E rotation \in {[x |-> ClampPitch(controller.mousePos.y),
                         y |-> DNeg(controller.mousePos.x)]},
        isMoving \in {DLt(DZero, Length(RawDirection(controller.keys)))} :
     \E position \in {ClampRadius(ClampHeight(
                        Moved(controller.position, controller.keys, rotation,
                              IF sceneContent.clock
                              THEN Quotient(frameMs, 1000)
                              ELSE DZero)))} :
     \E time \in 0..MaxTime, taken \in BOOLEAN :
     LET isRotating == controller.isMouseDown
         isNavigatingNow == isMoving \/ isRotating
         publish == ShouldPublish(controller.lastPosition, position)
         written ==
           [sceneState EXCEPT
              !.cameraRotation = rotation,
              !.isNavigating = isNavigatingNow,
              !.lastInteractionTime = IF isNavigatingNow THEN time ELSE @,
              !.userPosition = IF publish THEN position ELSE @]
     IN /\ controller' =
             [controller EXCEPT
                !.rotation = rotation,
                !.position = position,
                !.lastPosition = IF publish THEN position ELSE @,
                !.frames = @ + 1,
                !.frame = IF publish THEN "published" ELSE "kept"]
        /\ IF isNavigatingNow THEN ReadClock(time)
           ELSE time = dateNow /\ dateNow' = dateNow
        /\ \E after \in {Rerender(navigation, written, taken)} :
             /\ navigation' = after.navigation
             /\ sceneState' = after.sceneState
  /\ sceneContent' = [sceneContent EXCEPT !.clock = TRUE]
  /\ performanceMode' = navigation.mode
  /\ targetFPS' = performanceSettings(navigation.mode).targetFPS
  /\ requestedMode' = navigation.mode
  /\ storeLast' = [op |-> "render", dirty |-> 0]
  /\ last' = NoClose
  /\ UNCHANGED <<frameCount, lastTime, fpsCalculationStartTime, fps, frameTime,
                 fpsHistory, callbacks, animationFrameId, now, frameMs,
                 stopped>>
  /\ UNCHANGED <<handles, capability, telemetry, surface>>

\* A key event arrives between two display frames, once CameraController's
\* listeners are on the document.
PressKey(code) == due = <<>> /\ sceneContent.listening /\ KeyDown(code)

ReleaseKey(code) == due = <<>> /\ sceneContent.listening /\ KeyUp(code)

\* ------------------------------------------------------ render surface
\* setupWebGLErrorHandlers(), run once by the tracker's constructor: the
\* listener goes on the canvas document.querySelector finds at that moment.
setupWebGLErrorHandlers(canvas) == [canvas |-> canvas, hooked |-> canvas]

\* The scene mounts and the renderer adds its canvas to the document.
CreateCanvas ==
  /\ ~surface.canvas
  /\ surface' = [surface EXCEPT !.canvas = TRUE]
  /\ trackerLast' = NoCall
  /\ UNCHANGED <<errors, performanceIssues, tracked, governor, scheduler,
                 handles, capability, store, controller, scene>>

\* The canvas fires webglcontextlost (defaultPrevented: a listener of the
\* renderer has called preventDefault on the event).
ContextLost(defaultPrevented, prod, sink) ==
  /\ surface.canvas
  /\ tracked.errors < MaxFaults
  /\ IF surface.hooked
     THEN LET report == Forward(prod, sink)
          IN /\ errors' = StoreError(errors,
                             [type |-> "webgl_context_lost",
                              id |-> tracked.errors + 1,
                              additionalData |-> [preventable |-> ~defaultPrevented]])
             /\ tracked' = [tracked EXCEPT !.errors = @ + 1]
             /\ trackerLast' = [NoCall EXCEPT !.op = "webglcontextlost",
                                              !.returned = (report # "threw"),
                                              !.logged = (report # "threw"),
                                              !.forwarded = (report = "sent")]
     ELSE /\ UNCHANGED <<errors, tracked>>
          /\ trackerLast' = [NoCall EXCEPT !.op = "webglcontextlost"]
  /\ UNCHANGED <<performanceIssues, governor, scheduler, handles, capability,
                 store, surface, controller, scene>>

Next ==
  \/ Refresh
  \/ Monitor(MaxFrames)
  \/ \E t \in FrameMsSet : SetFrameMs(t)
  \/ StartMonitoring
  \/ StopMonitoring
  \/ \E mode \in Modes : SetPerformanceMode(mode)
  \/ \E fn \in Listeners : Subscribe(fn)
  \/ \E fn \in Listeners : Unsubscribe(fn)

Spec == Init /\ [][Next]_vars

\* Tier selection over several sampling windows: the frame loop, the display
\* rate and explicit mode changes, without subscribers or restarts.
NextAuto ==
  \/ Refresh
  \/ Monitor(MaxAutoFrames)
  \/ \E t \in AutoFrameMsSet : SetFrameMs(t)
  \/ \E mode \in Modes : SetPerformanceMode(mode)

SpecAuto == Init /\ [][NextAuto]_vars

\* The FPS history over thirty-one sampling windows: the frame loop, with a
\* refresh interval that may differ in the first and in the last window.
NextHistory ==
  \/ Refresh
  \/ Monitor(MaxHistoryFrames)
  \/ \E t \in FrameMsSet : SetFrameMsAt(t)

SpecHistory == Init /\ [][NextHistory]_vars

\* Subscriptions identified by their handles: the frame loop with callbacks
\* that only read the metrics, subscribe() and calls of the returned handles.
NextSubs ==
  \/ Refresh
  \/ Monitor(MaxFrames)
  \/ \E fn \in PlainListeners : SubscribeHandle(fn)
  \/ \E h \in 1..MaxHandles : CallHandle(h)

SpecSubs == Init /\ [][NextSubs]_vars

\* The capability query between the frames of the first sampling window.
NextCapability ==
  \/ Refresh
  \/ Monitor(MaxFrames)
  \/ \E platform \in Platforms, canvas \in Canvases, answer \in ExtensionAnswers :
       CheckWebGLSupport(platform, canvas, answer)

SpecCapability == Init /\ [][NextCapability]_vars

\* The store does not depend on the display: its specification starts at one
\* refresh interval.
InitStore == Init /\ frameMs = 10

\* The scene store under its named operations.
NextStore ==
  \/ \E loaded \in BOOLEAN : SetLoaded(loaded)
  \/ \E zone \in Zones : SetCurrentZone(zone)
  \/ \E progress \in ProgressInputs : SetLoadingProgress(progress)
  \/ \E mode \in Modes : StoreSetPerformanceMode(mode)
  \/ \E value \in FpsInputs : UpdateFPS(value)
  \/ \E value \in FpsInputs : UpdateAverageFPS(value)
  \/ \E preferences \in PreferenceInputs : UpdateUserPreferences(preferences)
  \/ \E navigating \in BOOLEAN : SetIsNavigating(navigating)
  \/ \E time \in 0..MaxTime : UpdateLastInteractionTime(time)
  \/ \E error \in ErrorInputs : SetError(error)
  \/ \E time \in 0..MaxTime : ResetScene(time)
  \/ \E isMobile \in BOOLEAN, isLowEndDevice \in BOOLEAN,
        prefersReducedMotion \in BOOLEAN, time \in 0..MaxTime :
       InitializeDefaults(isMobile, isLowEndDevice, prefersReducedMotion, time)

SpecStore == InitStore /\ [][NextStore]_vars

\* Every field of the store moved off its default by one argument per
\* operation, the camera operations included, and resetScene.
NextReset ==
  \/ SetLoaded(TRUE)
  \/ SetCurrentZone("gallery")
  \/ SetLoadingProgress(Number(50))
  \/ StoreSetPerformanceMode("low")
  \/ UpdateFPS(30)
  \/ UpdateAverageFPS(30)
  \/ \E preferences \in {q \in PreferenceInputs : "performanceMode" \notin DOMAIN q} :
       UpdateUserPreferences(preferences)
  \/ SetIsNavigating(TRUE)
  \/ \E time \in 0..MaxTime : UpdateLastInteractionTime(time)
  \/ SetError("WebGL is not supported on this device/browser")
  \/ \E position \in PositionInputs : UpdateUserPosition(position)
  \/ \E target \in TargetInputs : UpdateCameraTarget(target)
  \/ \E rotation \in RotationInputs : UpdateCameraRotation(rotation)
  \/ \E time \in 0..MaxTime : ResetScene(time)
  \/ \E time \in 0..MaxTime : InitializeDefaults(TRUE, FALSE, FALSE, time)

SpecReset == InitStore /\ [][NextReset]_vars

\* The tracker does not depend on the display: its specifications start at
\* one refresh interval.
InitTracker == Init /\ frameMs = 10

\* The error tracker across the cap of the error list.
NextTracker ==
  \/ \E type \in ErrorTypes, prod \in BOOLEAN, sink \in Sinks :
       TrackError(type, prod, sink, MaxErrorCalls)
  \/ \E type \in IssueTypes, prod \in BOOLEAN, sink \in Sinks :
       TrackPerformanceIssue(type, prod, sink, FewCalls)
  \/ GetErrorSummary
  \/ GetPerformanceSummary
  \/ ClearErrors
  \/ \E platform \in Platforms, canvas \in Canvases, debugInfo \in BOOLEAN,
        prod \in BOOLEAN, sink \in Sinks :
       TrackerCheckWebGLSupport(platform, canvas, debugInfo, prod, sink)

SpecTracker == InitTracker /\ [][NextTracker]_vars

\* The error tracker across the cap of the performance-issue list.
NextIssues ==
  \/ \E type \in ErrorTypes, prod \in BOOLEAN, sink \in Sinks :
       TrackError(type, prod, sink, FewCalls)
  \/ \E type \in IssueTypes, prod \in BOOLEAN, sink \in Sinks :
       TrackPerformanceIssue(type, prod, sink, MaxIssueCalls)
  \/ GetPerformanceSummary
  \/ ClearErrors

SpecIssues == InitTracker /\ [][NextIssues]_vars

\* Unhandled faults reaching the tracker's global listeners, with clears.
NextFaults ==
  \/ \E fault \in Faults, prod \in BOOLEAN, sink \in Sinks :
       OnError(fault, prod, sink)
  \/ \E fault \in Faults, prod \in BOOLEAN, sink \in Sinks :
       OnUnhandledRejection(fault, prod, sink)
  \/ \E type \in IssueTypes, prod \in BOOLEAN, sink \in Sinks :
       TrackPerformanceIssue(type, prod, sink, FewCalls)
  \/ GetErrorSummary
  \/ ClearErrors

SpecFaults == InitTracker /\ [][NextFaults]_vars

\* The render surface and the tracker: the tracker was constructed with or
\* without a canvas in the document.
InitSurface ==
  /\ InitBase
  /\ frameMs = 10
  /\ \E canvas \in BOOLEAN : surface = setupWebGLErrorHandlers(canvas)
  /\ controller = NewController(V3(0, 0, 5))

NextSurface ==
  \/ CreateCanvas
  \/ \E defaultPrevented \in BOOLEAN, prod \in BOOLEAN, sink \in Sinks :
       ContextLost(defaultPrevented, prod, sink)
  \/ \E type \in IssueTypes, prod \in BOOLEAN, sink \in Sinks :
       TrackPerformanceIssue(type, prod, sink, FewCalls)
  \/ GetErrorSummary
  \/ ClearErrors

SpecSurface == InitSurface /\ [][NextSurface]_vars

\* The camera in motion: keys and frames from each starting position.
InitCamera ==
  /\ InitServices
  /\ InitScene
  /\ sceneState = ExactStore(initialState(0))
  /\ frameMs = 10
  /\ surface = NoSurface
  /\ \E position \in StartPositions : controller = NewController(position)

NextCamera ==
  \/ \E code \in KeyCodes : KeyDown(code) \/ KeyUp(code)
  \/ \E delta \in Deltas : UseFrame(delta, dateNow)

SpecCamera == InitCamera /\ [][NextCamera]_vars

\* The look: mouse, pointer lock and touch.
InitLook ==
  /\ InitServices
  /\ InitScene
  /\ sceneState = ExactStore(initialState(0))
  /\ frameMs = 10
  /\ surface = NoSurface
  /\ controller = NewController(V3(0, 0, 5))

NextLook ==
  \/ \E button \in Buttons : MouseDown(button) \/ MouseUp(button)
  \/ PointerLockGranted
  \/ PointerLockRefused
  \/ PointerLockReleased
  \/ PointerLockExit
  \/ ControllerRender
  \/ ControllerEffects
  \/ \E movementY \in LookMoves : MouseMove(0, movementY)
  \/ \E clientY \in TouchPoints : TouchStart(0, clientY) \/ TouchMove(0, clientY)
  \/ TouchEnd
  \/ (controller.frames < MaxLookFrames /\ UseFrame(Frame100ms, dateNow))

SpecLook == InitLook /\ [][NextLook]_vars

\* The pointer lock and the keys: what a frame takes for navigating.
InitPointer == InitLook

NextPointer ==
  \/ \E code \in LookCodes : KeyDown(code) \/ KeyUp(code)
  \/ \E button \in Buttons : MouseDown(button) \/ MouseUp(button)
  \/ PointerLockGranted
  \/ PointerLockRefused
  \/ PointerLockReleased
  \/ PointerLockExit
  \/ ControllerRender
  \/ ControllerEffects
  \/ UseFrame(Frame100ms, dateNow)

SpecPointer == InitPointer /\ [][NextPointer]_vars

\* The governor paused and resumed, on a display that refreshes every 10 ms.
InitPause == Init /\ frameMs = 10

NextPause ==
  \/ Refresh
  \/ Monitor(MaxFrames)
  \/ StopMonitoring
  \/ \E ms \in PauseMs : Idle(ms)
  \/ Resume

SpecPause == InitPause /\ [][NextPause]_vars

\* The scene under the governor: the hook subscribed, windows closing at
\* changing frame rates, PortfolioScene rendering in between.
InitApp ==
  /\ InitServices
  /\ InitScene
  /\ sceneState = ExactStore(initialState(0))
  /\ surface = NoSurface
  /\ controller = NewController(V3(0, 0, 5))

NextApp ==
  \/ Refresh
  \/ Monitor(MaxAppFrames)
  \/ \E t \in FrameMsSet : SetFrameMs(t)
  \/ \E mode \in SceneModes : SceneMount(mode)
  \/ \E platform \in Platforms, device \in Devices :
       MountEffects(platform, "browser", "some", device, dateNow)
  \/ \E mode \in SceneModes : Render(mode)
  \/ RenderEffects

SpecApp == InitApp /\ [][NextApp]_vars

\* The scene on a device: the frame loop, the first render of the scene on
\* each platform and device, and the renders that follow.
InitDevice == InitApp

NextScene ==
  \/ Refresh
  \/ Monitor(MaxFrames)
  \/ \E mode \in SceneModes : SceneMount(mode)
  \/ \E platform \in Platforms, canvas \in Canvases,
        answer \in ExtensionAnswers, device \in Devices, time \in 0..MaxTime :
       MountEffects(platform, canvas, answer, device, time)
  \/ \E mode \in SceneModes : Render(mode)
  \/ RenderEffects

SpecScene == InitDevice /\ [][NextScene]_vars

\* The two frame loops of the page: the governor's, registered when its
\* module was loaded, and the renderer's, registered when the Canvas mounts
\* its content.  PortfolioScene renders first, its Canvas mounts the
\* content, the content's effects attach the listeners and arm the ready
\* timer; every frame of the camera renders PortfolioScene again.  The page
\* is on a desktop whose browser has WebGL: the renderer needs a context.
InitFrame ==
  /\ InitServices
  /\ InitScene
  /\ sceneState = ExactStore(initialState(0))
  /\ frameMs = 50
  /\ surface = NoSurface
  /\ controller = NewController(V3(0, 0, 5))

NextFrame ==
  \/ \E mode \in SceneModes : SceneMount(mode)
  \/ MountEffects([webgl1 |-> TRUE, webgl2 |-> TRUE], "browser", "some",
                  [isMobile |-> FALSE, isLowEndDevice |-> FALSE,
                   prefersReducedMotion |-> FALSE], dateNow)
  \/ MountCanvas
  \/ CanvasEffects
  \/ \E taken \in BOOLEAN : SceneReady(taken)
  \/ Refresh
  \/ Monitor(MaxCameraFrames)
  \/ RenderLoop
  \/ StopMonitoring
  \/ StartMonitoring
  \/ \E code \in LookCodes : PressKey(code) \/ ReleaseKey(code)
  \/ Render(navigation.mode)
  \/ RenderEffects

SpecFrame == InitFrame /\ [][NextFrame]_vars

\* ------------------------------------------------------------ observations
Pending == Len(rafQueue) + Len(due)

\* The quality tier a mode value renders with: 'auto' carries the settings
\* of 'high'.
Tier(mode) == IF mode = "auto" THEN "high" ELSE mode

Rank(tier) == CASE tier = "low" -> 0 [] tier = "medium" -> 1 [] OTHER -> 2

RECURSIVE Count(_, _)
Count(s, x) ==
  IF s = <<>> THEN 0
  ELSE (IF Head(s) = x THEN 1 ELSE 0) + Count(Tail(s), x)

Pinned == {"high", "medium", "low"}

Min(a, b) == IF a < b THEN a ELSE b

\* The n-th most recent of the entries inserted since the last clear carries
\* id n: a list holds the `kept` most recent of `count` insertions, most
\* recent first.
MostRecentFirst(list, count, kept) ==
  /\ Len(list) = kept
  /\ \A k \in 1..Len(list) : list[k].id = count - k + 1

Kinds(list) == {list[k].type : k \in 1..Len(list)}
CountOfKind(list, kind) == Cardinality({k \in 1..Len(list) : list[k].type = kind})

RECURSIVE SumCounts(_, _)
SumCounts(counts, kinds) ==
  IF kinds = {} THEN 0
  ELSE LET k == CHOOSE x \in kinds : TRUE
       IN counts[k] + SumCounts(counts, kinds \ {k})

\* What a summary of `list` has to be.
SummaryMatches(sm, list) ==
  /\ sm.total = Len(list)
  /\ DOMAIN sm.byType = Kinds(list)
  /\ \A kind \in DOMAIN sm.byType :
       sm.byType[kind] = CountOfKind(list, kind) /\ sm.byType[kind] > 0
  /\ SumCounts(sm.byType, DOMAIN sm.byType) = sm.total
  /\ sm.recent = SubSeq(list, 1, Min(RecentCount, Len(list)))

\* The callbacks whose handle has not been called, in subscription order.
RECURSIVE LiveListeners(_)
LiveListeners(hs) ==
  IF hs = <<>> THEN <<>>
  ELSE (IF Head(hs).called THEN <<>> ELSE <<Head(hs).fn>>)
         \o LiveListeners(Tail(hs))

\* ------------------------------------------------------------------ claims

\* C1: once stopMonitoring() has returned, no frame callback executes until
\* startMonitoring() is called again, whatever state stop was called in
\* (running, stopped, or from a subscriber during a window-close notification).
C1_StopHaltsCallbacks == [][stopped => frameCount' = frameCount]_vars

\* C2: startMonitoring() is idempotent: at most one frame callback is pending
\* at any time, so frameCount advances by one per display refresh.
C2_StartIdempotent == Pending <= 1

\* C3: at a window close in which a subscriber throws, every other registered
\* subscriber is still invoked with that window's metrics.
C3_ThrowIsolated ==
  (last.close /\ last.threw) =>
    \A fn \in Listeners :
      Behaviour(fn) # "throw" =>
        Count(last.invoked, fn) = Count(last.registered, fn)

\* C4: a subscriber that throws at a window close does not abort the sampling
\* loop: the next frame callback is still scheduled.
C4_LoopSurvivesThrow ==
  (last.close /\ last.threw /\ ~stopped) => Pending >= 1

\* C5: while the mode is high, medium or low, no frame callback (and so no
\* window close) changes it, whatever FPS values are sampled.
C5_PinnedModeKept ==
  [][(performanceMode \in Pinned /\ frameCount' # frameCount)
       => performanceMode' = performanceMode]_vars

\* C5 witness: a window closed with the mode pinned to high and an average
\* below the lowest threshold, and the mode is still high.
C5_Witness ==
  /\ last.close
  /\ last.modeBefore = "high"
  /\ requestedMode = "high"
  /\ Below(last.average, LowThreshold)
  /\ performanceMode = "high"

\* C6: after setPerformanceMode('auto') the threshold table is evaluated at
\* every window close until a non-auto mode is set; an automatic tier switch
\* does not end automatic mode.
C6_AutoStaysAutomatic == (last.close /\ last.requested = "auto") => last.evaluated

\* C7: in auto mode, after a downgrade to low, a window close with an average
\* above 55 raises the tier to medium, and the next such close raises it to
\* high.
C7_QualityRestored ==
  (last.close /\ last.requested = "auto"
     /\ Above(last.average, UpgradeThreshold)) =>
    /\ last.modeBefore = "low" => last.modeAfter = "medium"
    /\ last.modeBefore = "medium" => last.modeAfter = "high"

\* C8 (as stated): one window close moves the tier by at most one level in
\* the order low < medium < high, in either direction.
C8_OneStepPerWindow ==
  [][frameCount' # frameCount =>
       /\ Rank(Tier(performanceMode')) - Rank(Tier(performanceMode)) <= 1
       /\ Rank(Tier(performanceMode)) - Rank(Tier(performanceMode')) <= 1]_vars

\* C8 (amended): one window close never raises the tier by more than one
\* level (never low directly to high), and lowers it by two levels (high
\* directly to low) only when that window's average FPS is below 25.
C8_OneStepUpwards ==
  [][frameCount' # frameCount =>
       /\ Rank(Tier(performanceMode')) - Rank(Tier(performanceMode)) <= 1
       /\ (Rank(Tier(performanceMode)) - Rank(Tier(performanceMode')) >= 2
             => Below(getAverageFPS(fpsHistory', fps'), LowThreshold))]_vars

\* C8 witness: a window close took the tier from high (auto) directly to low.
C8_Witness ==
  /\ last.close
  /\ last.modeBefore = "auto"
  /\ last.modeAfter = "low"
  /\ performanceMode = "low"
  /\ Below(last.average, LowThreshold)

\* C9: subscribers are invoked only inside a frame callback whose invocation
\* count is a multiple of 60; no other frame and no other operation
\* (setPerformanceMode, subscribe, unsubscribe, start, stop) invokes one.
C9_NotifyOnlyAtWindowClose ==
  [][last'.invoked # <<>> =>
       /\ frameCount' = frameCount + 1
       /\ frameCount' % WindowFrames = 0]_vars

\* C9 witness: a window close at frame 60 has notified two subscribers.
C9_Witness ==
  /\ frameCount = WindowFrames
  /\ Len(last.invoked) = 2
  /\ last.invoked = last.registered

\* C10: at a window close every listener registered when the notification
\* starts is invoked exactly once, also when a listener calls its own
\* unsubscribe handle during the notification.
C10_EachListenerOnce ==
  (last.close /\ ~last.threw) => last.invoked = last.registered

\* C11: the first call of the handle returned by one subscribe() call removes
\* only that registration: the listener list it leaves is the callbacks whose
\* own handle has not been called, in subscription order, another
\* registration of the same function included.
C11_OnlyThatRegistration ==
  [][\A h \in 1..Len(handles) :
       (~handles[h].called /\ CallHandle(h))
         => callbacks' = LiveListeners(handles')]_vars

\* C12: calling a handle that has already been called is a no-op: the
\* listener list is left exactly as it was, whatever else is subscribed.
C12_SecondCallNoOp ==
  [][\A h \in 1..Len(handles) :
       (handles[h].called /\ CallHandle(h)) => callbacks' = callbacks]_vars

\* C13: the error list never holds more than 50 entries, and after n
\* trackError calls since the last clearErrors it is exactly the min(n, 50)
\* most recently inserted errors, most recent first.
C13_ErrorsMostRecent ==
  /\ Len(errors) <= maxStoredErrors
  /\ MostRecentFirst(errors, tracked.errors, Min(tracked.errors, maxStoredErrors))

\* C13 witness: 52 errors were tracked since the last clear and the two
\* oldest are gone.
C13_Witness ==
  /\ tracked.errors = maxStoredErrors + 2
  /\ Len(errors) = maxStoredErrors
  /\ errors[1].id = maxStoredErrors + 2
  /\ errors[maxStoredErrors].id = 3

\* C14: the issue list never holds more than 100 entries and is the
\* min(n, 100) most recently inserted issues, most recent first;
\* trackPerformanceIssue leaves the error list alone and trackError leaves
\* the issue list alone.
C14_IssuesMostRecent ==
  [][/\ Len(performanceIssues') <= maxStoredIssues
     /\ MostRecentFirst(performanceIssues', tracked'.issues,
                         Min(tracked'.issues, maxStoredIssues))
     /\ trackerLast'.op = "trackPerformanceIssue" => errors' = errors
     /\ trackerLast'.op = "trackError" => performanceIssues' = performanceIssues]_vars

\* C14 witness: 102 issues were tracked since the last clear, the two oldest
\* are gone, and the one error tracked meanwhile is still alone in its list.
C14_Witness ==
  /\ tracked.issues = maxStoredIssues + 2
  /\ Len(performanceIssues) = maxStoredIssues
  /\ performanceIssues[1].id = maxStoredIssues + 2
  /\ performanceIssues[maxStoredIssues].id = 3
  /\ Len(errors) = 1

\* C15: getErrorSummary() returns the number of stored errors, the count of
\* each kind present (summing to the total, no kind with count 0) and the
\* first min(5, total) stored errors, and changes no list;
\* getPerformanceSummary() does the same for the issues.
C15_SummaryCorrect ==
  [][/\ trackerLast'.op = "getErrorSummary" =>
          /\ SummaryMatches(trackerLast'.summary, errors)
          /\ UNCHANGED <<errors, performanceIssues>>
     /\ trackerLast'.op = "getPerformanceSummary" =>
          /\ SummaryMatches(trackerLast'.summary, performanceIssues)
          /\ UNCHANGED <<errors, performanceIssues>>]_vars

\* C15 witness: a summary of more than 5 errors of at least two kinds.
C15_Witness ==
  /\ trackerLast.op = "getErrorSummary"
  /\ trackerLast.summary.total > RecentCount
  /\ Len(trackerLast.summary.recent) = RecentCount
  /\ Cardinality(DOMAIN trackerLast.summary.byType) >= 2

\* C16: clearErrors() empties the error list and the issue list from any
\* state, both summaries then report a total of 0, and the first error
\* tracked after it is alone in its list, as on a fresh tracker.
C16_ClearEmptiesBoth ==
  [][/\ trackerLast'.op = "clearErrors" =>
          /\ errors' = <<>> /\ performanceIssues' = <<>>
          /\ getErrorSummary(errors').total = 0
          /\ getPerformanceSummary(performanceIssues').total = 0
     /\ (trackerLast.op = "clearErrors" /\ trackerLast'.op = "trackError") =>
          /\ Len(errors') = 1
          /\ performanceIssues' = <<>>]_vars

\* C16 witness: a clear has just emptied a full error list and a non-empty
\* issue list.
C16_Witness ==
  /\ trackerLast.op = "clearErrors"
  /\ trackerLast.cleared = maxStoredErrors + 1
  /\ errors = <<>>
  /\ performanceIssues = <<>>

\* C17: the tracker's checkWebGLSupport() inserts exactly one
\* webgl_not_supported error at the front of the error list and returns
\* {supported: false} when no context can be created; when one is created it
\* returns supported = true with a version and a renderer and tracks nothing.
C17_CheckTracksOnlyFailure ==
  [][trackerLast'.op = "checkWebGLSupport" =>
       IF trackerLast'.supported
       THEN /\ trackerLast'.returned
            /\ trackerLast'.version # "" /\ trackerLast'.renderer # ""
            /\ errors' = errors
       ELSE /\ trackerLast'.returned
            /\ errors' # <<>>
            /\ Head(errors').type = "webgl_not_supported"
            /\ Tail(errors') = SubSeq(errors, 1, Len(errors') - 1)
            /\ tracked'.errors = tracked.errors + 1]_vars

\* C18: the governor's checkWebGLSupport() is a pure detection query: it
\* changes no governor state and records no telemetry error, each flag it
\* returns is true exactly when the platform can create a context of that
\* tier, and with no context at all it returns both flags false and no
\* extensions.
C18_PureDetection ==
  [][\A platform \in Platforms, canvas \in Canvases, answer \in ExtensionAnswers :
       CheckWebGLSupport(platform, canvas, answer) =>
         /\ UNCHANGED <<governor, telemetry>>
         /\ capability'.webgl1 = platform.webgl1
         /\ capability'.webgl2 = platform.webgl2
         /\ (~platform.webgl1 /\ ~platform.webgl2) => capability'.extensions = {}]_vars

\* C20: store.loadingProgress lies in [0, 100] in every reachable state, and
\* setLoadingProgress(x) after any sequence of store operations stores x
\* when 0 <= x <= 100, 0 when x is below and 100 when x is above.
C20_ProgressClamped ==
  [][/\ ~sceneState'.loadingProgress.nan
     /\ sceneState'.loadingProgress.value \in 0..100
     /\ \A x \in ProgressInputs :
          (~x.nan /\ SetLoadingProgress(x)) =>
            sceneState'.loadingProgress.value =
              (IF x.value < 0 THEN 0 ELSE IF x.value > 100 THEN 100 ELSE x.value)]_vars

\* C19: trackError and trackPerformanceIssue always return normally with the
\* entry stored and the local log written, whatever the analytics sink does,
\* and forward only in production mode.
C19_SinkNeverFails ==
  [][\A prod \in BOOLEAN, sink \in Sinks :
       ((\E type \in ErrorTypes : TrackError(type, prod, sink, MaxErrorCalls))
          \/ (\E type \in IssueTypes :
                TrackPerformanceIssue(type, prod, sink, MaxIssueCalls)))
       => /\ trackerLast'.returned
          /\ trackerLast'.logged
          /\ trackerLast'.forwarded => prod
          /\ errors' # errors \/ performanceIssues' # performanceIssues]_vars

\* C21: resetScene() restores every field to its documented default after any
\* sequence of store operations, except lastInteractionTime, which becomes
\* the time of the call.
C21_ResetRestoresDefaults ==
  [][storeLast'.op = "resetScene" =>
       /\ sceneState' =
            [loaded |-> FALSE,
             currentZone |-> "main",
             loadingProgress |-> Number(0),
             userPosition |-> <<0, 0, 5>>,
             cameraTarget |-> <<0, 0, 0>>,
             cameraRotation |-> [x |-> 0, y |-> 0],
             performanceMode |-> "auto",
             currentFPS |-> 60,
             averageFPS |-> 60,
             userPreferences |-> [reducedMotion |-> FALSE, audioEnabled |-> TRUE,
                                  skipIntroduction |-> FALSE,
                                  performanceMode |-> "auto"],
             isNavigating |-> FALSE,
             lastInteractionTime |-> dateNow',
             error |-> "null"]
       /\ dateNow' >= dateNow]_vars

\* C21 witness: a reset at a time later than construction has just restored
\* a store in which all twelve other fields were off their defaults.
C21_Witness ==
  /\ storeLast.op = "resetScene"
  /\ storeLast.dirty = 12
  /\ sceneState.lastInteractionTime > 0
  /\ DirtyFields(sceneState) = {}

\* C22: store.performanceMode equals store.userPreferences.performanceMode
\* in every state reachable through the store's named operations.
C22_ModeMatchesPreference ==
  sceneState.performanceMode = sceneState.userPreferences.performanceMode

\* The last n elements of s.
Suffix(s, n) == SubSeq(s, IF Len(s) > n THEN Len(s) - n + 1 ELSE 1, Len(s))

\* C23: the FPS history never holds more than 30 values; a window close
\* appends its sample after the samples kept so far and, once 30 are held,
\* drops the oldest one; no other step changes the history.
C23_HistorySlides ==
  [][/\ Len(fpsHistory') <= HistoryCap
     /\ IF last'.close
        THEN fpsHistory' = Suffix(fpsHistory \o <<fps'>>, HistoryCap)
        ELSE fpsHistory' = fpsHistory]_vars

\* The 31st window closed: the first sample (20 fps, a 50 ms interval) was
\* dropped and the thirty samples at 100 fps remain.
C23_Witness ==
  /\ last.close
  /\ frameCount = 31 * WindowFrames
  /\ now = WindowFrames * 50 + 30 * WindowFrames * 10
  /\ fpsHistory = [i \in 1..HistoryCap |-> FromInt(100)]

\* C24: once the scene has learnt that no graphics context can be created,
\* the tracker's error list holds a webgl_not_supported error and the store's
\* error is a non-null string.
C24_AbsenceRecordedAndSurfaced ==
  (/\ navigation.rendered
   /\ capability.called /\ ~capability.webgl1 /\ ~capability.webgl2)
    => /\ sceneState.error # "null"
       /\ \E i \in 1..Len(errors) : errors[i].type = "webgl_not_supported"

\* C25: in auto mode, a window close whose average FPS is below 25 while the
\* tier is not low leaves the tier low.
C25_BelowFloorGoesLow ==
  (/\ last.close
   /\ last.requested = "auto"
   /\ Below(last.average, LowThreshold)
   /\ Tier(last.modeBefore) # "low")
    => last.modeAfter = "low"

\* C25 witness: the first window of a governor in auto mode closed at 20 fps
\* and took the tier from high to low.
C25_Witness ==
  /\ last.close
  /\ frameCount = WindowFrames
  /\ last.requested = "auto"
  /\ Tier(last.modeBefore) = "high"
  /\ last.average = FromInt(20)
  /\ performanceMode = "low"

\* C26: in auto mode with the tier high, a window close whose average FPS is
\* at least 25 and below 40 switches the tier to medium.
C26_HighToMedium ==
  (/\ last.close
   /\ last.requested = "auto"
   /\ Tier(last.modeBefore) = "high"
   /\ ~Below(last.average, LowThreshold)
   /\ Below(last.average, MediumThreshold))
    => Tier(last.modeAfter) = "medium"

\* C27: in auto mode with the tier low, a window close whose average FPS is
\* above 55 raises the tier to medium.
C27_LowToMedium ==
  (/\ last.close
   /\ last.requested = "auto"
   /\ Tier(last.modeBefore) = "low"
   /\ Above(last.average, UpgradeThreshold))
    => Tier(last.modeAfter) = "medium"

\* C28: the FPS set at a window close is 60000 divided by the milliseconds
\* elapsed in the window, that is 60000 / (60 * T) when the 60 callbacks of
\* the window are T ms apart, and no other step changes it.
C28_FpsFromElapsed ==
  [][IF frameCount' # frameCount /\ frameCount' % WindowFrames = 0
     THEN fps' = Quotient(60000, WindowFrames * frameMs)
     ELSE fps' = fps]_vars

\* C28 witness: the second window, with callbacks 30 ms apart, closed at
\* 60000 / 1800 fps.
C28_Witness ==
  /\ last.close
  /\ frameCount = 2 * WindowFrames
  /\ frameMs = 30
  /\ fps = Quotient(100, 3)

\* The sum of the first n elements of s, from the left, and the mean of s.
RECURSIVE Total(_, _)
Total(s, n) == IF n = 0 THEN DZero ELSE DAdd(Total(s, n - 1), s[n])

Mean(s) == DDiv(Total(s, Len(s)), FromInt(Len(s)))

\* C29: getAverageFPS() is the arithmetic mean of the FPS history, or the
\* current FPS while the history is empty; the threshold evaluation of a
\* window close decides on the mean of the history that already holds the
\* window's sample.
C29_AverageIsMean ==
  /\ getAverageFPS(fpsHistory, fps) =
       (IF fpsHistory = <<>> THEN fps ELSE Mean(fpsHistory))
  /\ (last.close /\ last.evaluated) =>
       /\ last.average = Mean(fpsHistory)
       /\ performanceMode = autoAdjustPerformance(last.modeBefore, Mean(fpsHistory))

\* C29 witness: the second window closed at 20 fps after a first window at
\* 100 fps; the average is 60 and the mode is unchanged, where the window's
\* own 20 fps would have selected low.
C29_Witness ==
  /\ last.close
  /\ last.evaluated
  /\ fpsHistory = <<FromInt(100), FromInt(20)>>
  /\ fps = FromInt(20)
  /\ last.average = FromInt(60)
  /\ performanceMode = "auto"

\* The message holds one of the graphics keywords, whatever the case of its
\* letters.
MentionsGraphics(message) ==
  \E k \in 1..Len(webglKeywords) :
    \E at \in 1..Len(message) :
      /\ at + Len(webglKeywords[k]) - 1 <= Len(message)
      /\ \A j \in 1..Len(webglKeywords[k]) :
           ToLowerChar(message[at + j - 1]) = <<webglKeywords[k][j]>>

\* C30: an unhandled error or rejection adds an entry to the error list if
\* and only if its message mentions a graphics keyword; any other fault
\* leaves both lists unchanged.
C30_TrackedIffGraphics ==
  [][\A fault \in Faults, prod \in BOOLEAN, sink \in Sinks :
       (OnError(fault, prod, sink) \/ OnUnhandledRejection(fault, prod, sink))
         => IF MentionsGraphics(fault.message)
            THEN /\ tracked'.errors = tracked.errors + 1
                 /\ errors'[1].id = tracked'.errors
            ELSE /\ errors' = errors
                 /\ performanceIssues' = performanceIssues]_vars

\* C31: every loss of the canvas's graphics context adds exactly one
\* webgl_context_lost error whose additional data tells whether the loss was
\* preventable, whether the canvas existed when the tracker was constructed
\* or was created later.
C31_ContextLossTracked ==
  [][\A defaultPrevented \in BOOLEAN, prod \in BOOLEAN, sink \in Sinks :
       ContextLost(defaultPrevented, prod, sink)
         => /\ tracked'.errors = tracked.errors + 1
            /\ errors'[1].type = "webgl_context_lost"
            /\ errors'[1].additionalData.preventable = ~defaultPrevented]_vars

TypeOK ==
  /\ frameCount \in 0..MaxAutoFrames
  /\ performanceMode \in Modes
  /\ Len(callbacks) <= MaxListeners \/ Len(callbacks) <= MaxHandles
  /\ Len(handles) <= MaxHandles
  /\ Len(errors) <= maxStoredErrors
  /\ Len(performanceIssues) <= maxStoredIssues
  /\ \A k \in 1..Len(errors) : errors[k].type \in ErrorTypes
  /\ \A k \in 1..Len(performanceIssues) : performanceIssues[k].type \in IssueTypes
  /\ sceneState.performanceMode \in Modes
  /\ sceneState.userPreferences.performanceMode \in Modes \cup {Undefined}
  /\ sceneState.loaded \in BOOLEAN
  /\ Len(fpsHistory) <= HistoryCap

\* C32: after every frame update, store.isNavigating is true exactly when
\* the raw direction of the held keys is non-zero or the pointer is captured
\* for looking; with no key held and the pointer free it is false.
C32_NavigatingIffInput ==
  controller.frame # "none" =>
    (sceneState.isNavigating <=>
       \/ RawDirection(controller.keys) # V3(0, 0, 0)
       \/ controller.pointerLocked)

\* What a frame update leaves: the height within [0.5, 50], and the distance
\* from the origin at most 100.
HeightInRange(position) ==
  /\ ~DLt(position.y, MinHeight)
  /\ ~DLt(MaxHeight, position.y)

WithinRadius(position) == ~DLt(maxDistance, Length(position))

\* C33: after every frame update the camera's height is within [0.5, 50]
\* and its distance from the origin is at most 100, both at once.
C33_BoundsHoldTogether ==
  controller.frame # "none" =>
    HeightInRange(controller.position) /\ WithinRadius(controller.position)

\* The step is a frame update of the camera: the only step that counts one.
FrameUpdated == controller'.frames = controller.frames + 1

\* No key is held.
NoKeys == \A k \in DOMAIN controller.keys : ~controller.keys[k]

\* The camera is at distance 150 from the origin.
AtDistance150 == Length(controller.position) = FromInt(150)

\* The frame update leaves the camera at distance 100 in the direction it
\* had: every component is two thirds of what it was.
RescaledToBoundary ==
  /\ Length(controller'.position) = maxDistance
  /\ \A c \in {"x", "y", "z"} :
       DMul(FromInt(3), controller'.position[c])
         = DMul(FromInt(2), controller.position[c])

\* The same to within the rounding of the arithmetic: one part in 10^9.
\* 10^-9 = Quotient(1, 1000000000).
Tolerance == [neg |-> FALSE, exp |-> -82, hi |-> 36028797, lo |-> 2545301]
Close(a, b) == MagLess(DSub(a, b), Tolerance)

NearlyRescaledToBoundary ==
  /\ Close(Length(controller'.position), maxDistance)
  /\ \A c \in {"x", "y", "z"} :
       Close(DMul(FromInt(3), controller'.position[c]),
             DMul(FromInt(2), controller.position[c]))

\* C34: a camera at distance 150, after one frame update with no key held,
\* is at exactly distance 100 in the same direction, wherever it started.
C34_RescaledFromAnywhere ==
  [][(FrameUpdated /\ NoKeys /\ AtDistance150) => RescaledToBoundary]_vars

\* C34, amended: a camera at distance 150 whose height is within [0.5, 50]
\* is, after one frame update with no key held, at distance 100 in the same
\* direction to within the rounding of the arithmetic; the height of any
\* other camera is clamped first.
C34_RescaledFromHeightInRange ==
  [][(/\ FrameUpdated
      /\ NoKeys
      /\ AtDistance150
      /\ HeightInRange(controller.position)) => NearlyRescaledToBoundary]_vars

C34_Witness ==
  /\ controller.frame # "none"
  /\ controller.frames = 1
  /\ NoKeys
  /\ Close(controller.position.x, FromInt(96))
  /\ Close(controller.position.y, FromInt(28))
  /\ controller.position.z = DZero

\* An angle within [-pi / 2, pi / 2].
PitchInRange(angle) == ~DLt(HalfPi, angle) /\ ~DLt(angle, NegHalfPi)

\* C35: after every frame update the camera's pitch and the stored
\* cameraRotation.x are within [-pi / 2, pi / 2] whatever look offset has
\* accumulated, and the store holds the rotation of that frame.
C35_PitchClamped ==
  controller.frame # "none" =>
    /\ PitchInRange(controller.rotation.x)
    /\ PitchInRange(sceneState.cameraRotation.x)
    /\ sceneState.cameraRotation = controller.rotation
    /\ controller.rotation.y = DNeg(controller.mousePos.x)
    /\ PitchInRange(DNeg(controller.mousePos.y))
         => controller.rotation.x = DNeg(controller.mousePos.y)

\* A second frame with the look offset still beyond pi / 2 upwards.
C35_Witness ==
  /\ controller.frame # "none"
  /\ controller.frames >= 2
  /\ DLt(HalfPi, DNeg(controller.mousePos.y))
  /\ sceneState.cameraRotation.x = HalfPi

\* Two positions at most 0.1 apart.
Near(a, b) == ~DLt(PublishEpsilon, DistanceTo(a, b))

\* C36: a frame update writes the position to the store exactly when the
\* camera is more than 0.1 from the last published position; after every
\* frame the camera is within 0.1 of the published position.
C36_PublishedBeyondEpsilon ==
  [][FrameUpdated =>
       /\ (controller'.frame = "published") <=>
            ~Near(controller.lastPosition, controller'.position)
       /\ sceneState'.userPosition =
            IF Near(controller.lastPosition, controller'.position)
            THEN sceneState.userPosition ELSE controller'.position
       /\ sceneState'.userPosition = controller'.lastPosition
       /\ Near(sceneState'.userPosition, controller'.position)]_vars

\* A slow drift: the first frame publishes (0, 0.5, 5), the second moves
\* 0.08 forward and keeps the store, the third moves 0.08 more, to
\* z = 4.84, and publishes.
C36_Witness ==
  /\ controller.frames = 3
  /\ controller.frame = "published"
  /\ controller.position.x = DZero
  /\ controller.position.y = MinHeight
  /\ Close(controller.position.z, Quotient(484, 100))
  /\ sceneState.userPosition = controller.position

\* C37: within one display frame the camera's frame update runs before the
\* governor's frame callback: when the governor's callback is the next to
\* run, the renderer's loop of that frame has run already.
C37_CameraBeforeGovernor ==
  (due # <<>> /\ Head(due) # renderLoop /\ renderLoop # Null)
    => renderLoop \notin Elems(due)

\* C38: time during which the governor is stopped is not measured.  On a
\* display whose frame callbacks are 10 ms apart while monitoring, the frame
\* time is 10 ms after every callback and the FPS of every window close is
\* 100, so the automatic tier stays high, whatever pauses happened.
C38_PauseNotMeasured ==
  /\ frameCount > 0 => frameTime = FromInt(frameMs)
  /\ last.close => fps = Quotient(1000, frameMs)
  /\ performanceMode = "auto"

\* C39: once the scene has processed a window-close notification, the
\* store's currentFPS is the governor's FPS of that window and the store's
\* averageFPS is the governor's getAverageFPS().
C39_StoreMirrorsGovernor ==
  navigation.processed =>
    /\ sceneState.currentFPS = fps
    /\ sceneState.averageFPS = getAverageFPS(fpsHistory, fps)

\* C40: a render under an unchanged performanceMode prop leaves the tier
\* the governor selected in force (getPerformanceSettings() returns the
\* same settings after the render's effects as before), and the store never
\* names a non-auto tier other than the governor's.
C40_SelectionSurvivesRender ==
  [][(RenderEffects /\ navigation.mode = requestedMode) =>
       /\ performanceSettings(performanceMode') = performanceSettings(performanceMode)
       /\ sceneState'.performanceMode \in {"auto", performanceMode'}]_vars

====
